---- MODULE Spec2Model ----
(***************************************************************************)
(* AutoQA: the event-driven correlation pipeline.                          *)
(*   src/app/api/webhooks.py            github_webhook and the task runners *)
(*   src/app/utils/security.py          verify_github_signature             *)
(*   src/app/services/checklist_service.py   issue -> checklist              *)
(*   src/app/services/testgen_service.py     pull request -> test manifest   *)
(*   src/app/services/ci_mapper.py      workflow run -> verdict, report      *)
(*   src/app/services/merge_service.py  the merge gate                      *)
(*                                                                         *)
(* Texts are sequences of words (a string is its words joined by one       *)
(* space); test and symbol names are sequences of tokens (joined by "_").  *)
(* The vocabularies below are lower-case apart from "Must", and no word of *)
(* DescWords is a substring of another one once lower-cased, so Python's   *)
(* character-level `in` between two texts is the contiguous-subsequence    *)
(* test on words, and `kw in text` is a per-word lookup (HasKeyword).      *)
(***************************************************************************)
EXTENDS Integers, Sequences, FiniteSets, TLC

\* Python's None where the value is a string; a missing number or row id is 0,
\* which the code's truth tests (`all([...])`, `if pr_record.issue_id`) treat alike
None == "None"

Ok(v) == [kind |-> "ok", value |-> v]
Raise == [kind |-> "raise"]

\* ------------------------------------------------------------------ bounds
MaxResults == 2     \* test cases in the reports of one workflow run
\* webhooks.py line 25 sets MAX_CACHE_SIZE = 10000; the model keeps the cache
\* this small so that it overflows
MAX_CACHE_SIZE == 2
MaxTasks == 2       \* tasks github_webhook hands to background_tasks in a behaviour
MaxRequests == 2    \* requests github_webhook handles at the same time
MaxHandlers == 2    \* event handlers that run in a behaviour
MaxClock == 2       \* how far the clock goes, in steps of five minutes
MaxExchanges == 3   \* token exchanges asked of the provider in a behaviour
MaxRuns == 2        \* workflow runs the tasks report on in a behaviour
MaxTexts == 2       \* criteria texts handed to a merge
MaxLlmItems == 2    \* items the language model answers
MaxCandidates == 3  \* bullets the extraction found in an issue body
MaxBullets == 2      \* bullets in an issue body
MaxDiffLines == 3    \* lines of a diff
MaxCases == 2        \* testcase elements of a report
MaxSessions == 2
MaxRows == 3
TooShort == 10      \* the length up to which the extraction drops an item

\* ------------------------------------------------------- sequence helpers
Range(s) == {s[i] : i \in 1..Len(s)}

SeqsUpTo(S, n) == UNION {[1..k -> S] : k \in 0..n}

RECURSIVE SumSeq(_)
SumSeq(s) == IF s = <<>> THEN 0 ELSE Head(s) + SumSeq(Tail(s))

RECURSIVE FilterSeq(_, _)
FilterSeq(s, keep) ==
    IF s = <<>> THEN <<>>
    ELSE IF keep[1]
         THEN <<Head(s)>> \o FilterSeq(Tail(s), Tail(keep))
         ELSE FilterSeq(Tail(s), Tail(keep))

RECURSIVE Flatten(_)
Flatten(ss) == IF ss = <<>> THEN <<>> ELSE Head(ss) \o Flatten(Tail(ss))

\* ------------------------------------------------------------ vocabulary
\* str.lower() on the words used here
Lower(w) == IF w = "Must" THEN "must" ELSE IF w = "C1" THEN "c1"
            ELSE IF w = "C2" THEN "c2" ELSE IF w = "C3" THEN "c3" ELSE w

LowerText(t) == [i \in 1..Len(t) |-> Lower(t[i])]

\* word.strip(".,!?;:") on the words used here
StripPunct(w) == IF w = "page." THEN "page" ELSE w

\* the lower-cased words of the vocabulary that contain kw as a substring
WordsContaining(kw) ==
    CASE kw = "must" -> {"must"}
      [] kw = "need" -> {"need"}
      [] kw = "test" -> {"test"}
      [] kw = "validate" -> {"validate"}
      [] kw = "error" -> {"errors"}
      [] OTHER -> {}

\* `kw in text.lower()` for a keyword without spaces
HasKeyword(kw, t) == \E i \in 1..Len(t) : Lower(t[i]) \in WordsContaining(kw)

\* `a in b` on two lower-cased texts
IsSubstring(a, b) ==
    \E off \in 0..(Len(b) - Len(a)) : \A i \in 1..Len(a) : b[off + i] = a[i]

\* ------------------------------------------- checklist_service.py: merge
CId(n) == <<"C1", "C2", "C3", "C4", "C5", "C6", "C7", "C8">>[n]

RequiredKeywords == {"must", "required", "shall", "need"}

\* lines 127-128: required iff one of the keywords occurs in the text
IsRequiredText(t) == \E kw \in RequiredKeywords : HasKeyword(kw, t)

\* lines 130-137: tags by keyword presence, in this order
TagsOf(t) ==
    (IF HasKeyword("test", t) THEN <<"testing">> ELSE <<>>)
    \o (IF HasKeyword("validation", t) \/ HasKeyword("validate", t)
        THEN <<"validation">> ELSE <<>>)
    \o (IF HasKeyword("error", t) \/ HasKeyword("exception", t)
        THEN <<"error-handling">> ELSE <<>>)

\* line 124: the text is covered by, or covers, a description of the set
CoveredBy(t, existing) ==
    \E d \in existing : IsSubstring(LowerText(t), d) \/ IsSubstring(d, LowerText(t))

\* lines 120-144: the loop over the heuristic texts; `existing` is the set
\* built once at line 118, before the loop
RECURSIVE NormalizeLoop(_, _, _)
NormalizeLoop(items, texts, existing) ==
    IF texts = <<>> THEN items
    ELSE IF CoveredBy(Head(texts), existing)
         THEN NormalizeLoop(items, Tail(texts), existing)
         ELSE NormalizeLoop(
                Append(items, [id |-> CId(Len(items) + 1),
                               description |-> Head(texts),
                               required |-> IsRequiredText(Head(texts)),
                               tags |-> TagsOf(Head(texts))]),
                Tail(texts), existing)

NormalizeChecklist(criteria_texts, llm_checklist) ==
    NormalizeLoop(llm_checklist, criteria_texts,
                  {LowerText(llm_checklist[i].description) : i \in 1..Len(llm_checklist)})

\* --------------------------------------- testgen_service.py: the manifest
TId(n) == <<"T1", "T2", "T3", "T4", "T5", "T6", "T7", "T8">>[n]

StopWords == {"the", "a", "an", "for", "and", "or", "but", "to", "of", "in", "on", "at"}

\* the keyword set of a checklist description (testgen_service.py 234-238,
\* ci_mapper.py 285-288): lower-case, split on blanks, drop the stop words, then
\* strip the punctuation
ItemWords(description) ==
    {StripPunct(Lower(description[i])) :
        i \in {j \in 1..Len(description) : Lower(description[j]) \notin StopWords}}

SymbolWords(symbol_name) == {Lower(symbol_name[i]) : i \in 1..Len(symbol_name)}

RECURSIVE SelectIds(_, _)
SelectIds(checklist, hit) ==
    IF checklist = <<>> THEN <<>>
    ELSE (IF hit[1] THEN <<Head(checklist).id>> ELSE <<>>)
         \o SelectIds(Tail(checklist), Tail(hit))

MapToChecklist(symbol_name, checklist) ==
    SelectIds(checklist,
              [i \in 1..Len(checklist) |->
                  SymbolWords(symbol_name) \cap ItemWords(checklist[i].description) # {}])

IsPythonFile(filename) == filename \in {"app/auth.py", "app/mail.py"}

\* f"test_{symbol.name}_autoqa"
SymbolTestName(symbol_name) == <<"test">> \o symbol_name \o <<"autoqa">>

\* f"test_checklist_item_{item.id.lower()}_autoqa"
GenericTestName(id) == <<"test", "checklist", "item", Lower(id), "autoqa">>

\* lines 163-191: the function symbols of the Python files, file by file
FunctionSymbolsOf(symbols, files) ==
    Flatten([f \in 1..Len(files) |->
        IF IsPythonFile(files[f])
        THEN FilterSeq(symbols, [i \in 1..Len(symbols) |->
                 symbols[i].file_path = files[f] /\ symbols[i].type = "function"])
        ELSE <<>>])

GenerateTestManifest(pr_number, head_sha, symbols, files, checklist) ==
    LET fsyms == FunctionSymbolsOf(symbols, files)
        fromSymbols == [i \in 1..Len(fsyms) |->
            [test_id |-> TId(i),
             name |-> SymbolTestName(fsyms[i].name),
             framework |-> "pytest",
             target |-> fsyms[i].file_path,
             checklist |-> MapToChecklist(fsyms[i].name, checklist)]]
        testItems == FilterSeq(checklist, [i \in 1..Len(checklist) |->
                        HasKeyword("test", checklist[i].description)])
        generic == [i \in 1..Len(testItems) |->
            [test_id |-> TId(i),
             name |-> GenericTestName(testItems[i].id),
             framework |-> "pytest",
             target |-> IF files # <<>> THEN files[1] ELSE "unknown",
             checklist |-> <<testItems[i].id>>]]
    IN [pr_number |-> pr_number,
        head_sha |-> head_sha,
        tests |-> IF fromSymbols = <<>> /\ checklist # <<>> THEN generic ELSE fromSymbols]

\* ------------------------------------------------ ci_mapper.py: the verdict
\* test_lower.replace("test_", "").replace("_", " ").split(): every token
\* "test" that an underscore follows goes, with that underscore
RECURSIVE DropTestMarkers(_)
DropTestMarkers(name) ==
    IF Len(name) <= 1 THEN name
    ELSE IF Head(name) = "test" THEN DropTestMarkers(Tail(name))
         ELSE <<Head(name)>> \o DropTestMarkers(Tail(name))

TestWords(test_name) == Range(DropTestMarkers(LowerText(test_name)))

\* a match that is content with one word in common
FuzzyMatchOnOneWord(test_name, checklist_items) ==
    SelectIds(checklist_items,
              [i \in 1..Len(checklist_items) |->
                  TestWords(test_name) \cap ItemWords(checklist_items[i].description) # {}])

\* _fuzzy_match_checklist, lines 267-294
FuzzyMatchChecklist(test_name, checklist_items) ==
    SelectIds(checklist_items,
              [i \in 1..Len(checklist_items) |->
                  Cardinality(TestWords(test_name)
                              \cap ItemWords(checklist_items[i].description)) >= 2])

\* lines 220-224: the first manifest entry carrying the result's name
\* (its position in the manifest, 0 when there is none)
ManifestEntryFor(manifest_tests, name) ==
    LET hits == {i \in 1..Len(manifest_tests) : manifest_tests[i].name = name}
    IN IF hits = {} THEN 0
       ELSE CHOOSE i \in hits : \A j \in hits : i <= j

\* lines 226-231: the manifest entry's ids, else the fuzzy match
LinkedIds(manifest_tests, checklist_items, test_result) ==
    LET entry == ManifestEntryFor(manifest_tests, test_result.name)
        explicit == IF entry = 0 THEN <<>> ELSE manifest_tests[entry].checklist
    IN IF explicit = <<>>
       THEN FuzzyMatchChecklist(test_result.name, checklist_items)
       ELSE explicit

\* lines 234-237
CoversRequired(checklist_items, checklist_ids) ==
    \E i \in 1..Len(checklist_items) :
        checklist_items[i].id \in Range(checklist_ids) /\ checklist_items[i].required

\* line 212
RequiredTotal(checklist_items) ==
    Cardinality({i \in 1..Len(checklist_items) : checklist_items[i].required})

\* lines 213, 239-240: one more for every passed result that covers a
\* required item
RequiredPassed(manifest_tests, checklist_items, test_results) ==
    SumSeq([k \in 1..Len(test_results) |->
        IF CoversRequired(checklist_items,
                          LinkedIds(manifest_tests, checklist_items, test_results[k]))
           /\ test_results[k].status = "passed"
        THEN 1 ELSE 0])

\* a score that takes "nothing required" for full compliance
ScoreFullWhenNothingRequired(required_passed, required_total) ==
    IF required_total > 0
    THEN [num |-> required_passed, den |-> required_total]
    ELSE [num |-> 1, den |-> 1]

\* line 257: the score, a float in the code, kept as the fraction num/den
Score(required_passed, required_total) ==
    IF required_total > 0
    THEN [num |-> required_passed, den |-> required_total]
    ELSE [num |-> 0, den |-> 1]

\* lines 259-265
Compliance(manifest_tests, checklist_items, test_results) ==
    LET rt == RequiredTotal(checklist_items)
        rp == RequiredPassed(manifest_tests, checklist_items, test_results)
    IN [score |-> Score(rp, rt),
        required_passed |-> rp,
        required_total |-> rt,
        total_tests |-> Len(test_results),
        passed_tests |-> Cardinality({k \in 1..Len(test_results) :
                                         test_results[k].status = "passed"})]

\* lines 243-251: the rows saved for the run
TestResultRows(pr_id, manifest_tests, checklist_items, test_results) ==
    [k \in 1..Len(test_results) |->
        LET entry == ManifestEntryFor(manifest_tests, test_results[k].name)
        IN [pr_id |-> pr_id,
            test_id |-> IF entry = 0 THEN None ELSE manifest_tests[entry].test_id,
            name |-> test_results[k].name,
            status |-> test_results[k].status,
            checklist_ids |-> LinkedIds(manifest_tests, checklist_items, test_results[k])]]

\* ------------------------------------------- merge_service.py: the gate
\* an attempt_merge that is handed the installation id of the event
MergeInstallationIdOfEvent == CHOOSE i \in {55} : TRUE

\* line 50: the installation id attempt_merge works with (None)
MergeInstallationId == 0

NoReply == [kind |-> "not_called"]

\* A message is the sequence of the texts it is put together from.
MergeResult(success, message, sha) ==
    [success |-> success, message |-> message, sha |-> sha]

\* attempt_merge past the feature flag, lines 43-101. bp is the provider's
\* answer to the branch protection lookup and mr its answer to the merge call,
\* should the attempt get that far; calls lists the provider endpoints the
\* attempt reached, reply is what the merge call answered.
AttemptMergeEnabled(bp, mr) ==
    IF MergeInstallationId = 0
    THEN [result |-> MergeResult(FALSE, <<"Installation ID not available">>, None),
          calls |-> {}, reply |-> NoReply]
    ELSE IF bp.kind = "raise"
    THEN [result |-> MergeResult(FALSE, <<"Merge failed: ", bp.message>>, None),
          calls |-> {"get_branch_protection"}, reply |-> NoReply]
    ELSE IF mr.kind = "raise"
    THEN [result |-> MergeResult(FALSE, <<"Merge failed: ", mr.message>>, None),
          calls |-> {"get_branch_protection", "merge_pr"}, reply |-> mr]
    ELSE IF mr.merged
    THEN [result |-> MergeResult(TRUE, <<"PR merged successfully">>, mr.sha),
          calls |-> {"get_branch_protection", "merge_pr"}, reply |-> mr]
    ELSE [result |-> MergeResult(FALSE,
                        IF mr.message = None THEN <<"Merge failed">> ELSE <<mr.message>>,
                        None),
          calls |-> {"get_branch_protection", "merge_pr"}, reply |-> mr]

\* a gate that never looks at the feature flag
AttemptMergeIgnoringFlag(enabled, bp, mr) == AttemptMergeEnabled(bp, mr)

\* attempt_merge, lines 37-41 and on
AttemptMerge(enabled, bp, mr) ==
    IF ~enabled
    THEN [result |-> MergeResult(FALSE, <<"Auto-merge is disabled">>, None),
          calls |-> {}, reply |-> NoReply]
    ELSE AttemptMergeEnabled(bp, mr)

\* The gate's state as section 4.7 of the specification names it
GateState(result) ==
    IF result.success THEN "Merged"
    ELSE IF result.message = <<"Auto-merge is disabled">> THEN "Skipped"
    ELSE "Blocked"

\* ------------------------------------------------------------ input domains
RepoName == "acme/app"
InstallationIds == {55}
RunIds == {7}
IssueNumbers == {1}
PrNumbers == {1}
Shas == {"sha1", "sha2"}
PrShas == {"sha1"}

TEmail == <<"Must", "validate", "email", "format">>
TLogin == <<"must", "show", "login", "errors">>
TPage == <<"should", "test", "the", "login", "page.">>

\* what extract_acceptance_criteria hands over for the issue bodies considered
CriteriaInputs == {<<TPage>>, <<TEmail, TLogin>>}

LlmItemEmail == [id |-> "C1", description |-> <<"validate", "email">>,
                 required |-> TRUE, tags |-> <<>>]

\* what parse_issue_to_checklist answers: a list of items, or it raises
LlmReplies == {Raise, Ok(<<>>), Ok(<<LlmItemEmail>>)}

\* settings.llm_provider
LlmProviders == {"none", "groq"}

SymEmail == [name |-> <<"validate", "email">>, type |-> "function", file_path |-> "app/mail.py"]
SymLogin == [name |-> <<"login">>, type |-> "function", file_path |-> "app/auth.py"]
SymBoth == [name |-> <<"validate", "login">>, type |-> "function", file_path |-> "app/auth.py"]
SymClass == [name |-> <<"Mailer">>, type |-> "class", file_path |-> "app/mail.py"]

\* the changed symbols of a diff, in diff order, and the changed files
DiffInputs ==
    {[symbols |-> <<>>, files |-> <<"README.md">>],
     [symbols |-> <<SymBoth, SymClass, SymEmail>>, files |-> <<"app/mail.py", "app/auth.py">>]}

TestNames == {<<"test", "validate", "email", "autoqa">>,
              <<"test", "validate", "login", "autoqa">>}
Statuses == {"passed", "failed", "error", "skipped"}

\* the test cases parse_junit returns for one report
ResultLists == SeqsUpTo([name : TestNames, status : {"passed", "failed"}], MaxResults)

\* an artifact of the run: its name, and what downloading and parsing it gives
Artifacts ==
    [name : {"autoqa-report"}, content : {Ok(r) : r \in ResultLists} \cup {Raise}]
    \cup {[name |-> "coverage",
           content |-> Ok(<<[name |-> <<"test", "validate", "email", "autoqa">>,
                             status |-> "passed"]>>)]}

\* what list_workflow_run_artifacts answers: no artifact, one, or a broken
\* report followed by a report of one test case
ArtifactLists ==
    {<<>>} \cup {<<a>> : a \in Artifacts}
    \cup {<<[name |-> "autoqa-report", content |-> Raise], b>> :
            b \in {x \in Artifacts : x.content.kind = "ok" /\ Len(x.content.value) = 1}}

BranchProtectionReplies == {[kind |-> "raise", message |-> "403 Forbidden"],
                            [kind |-> "ok", rules |-> None]}
MergeReplies == {[kind |-> "ok", merged |-> TRUE, sha |-> "sha9", message |-> None],
                 [kind |-> "ok", merged |-> FALSE, sha |-> None,
                  message |-> "Pull Request is not mergeable"],
                 [kind |-> "raise", message |-> "405 Method Not Allowed"]}

IssueEvents ==
    [issue_number : IssueNumbers \cup {0}, repo : {RepoName},
     installation_id : InstallationIds, state : {"open"}, criteria : CriteriaInputs]

PrEvents ==
    [action : {"opened", "synchronize", "closed"}, pr_number : PrNumbers,
     head_sha : PrShas, repo : {RepoName}, installation_id : InstallationIds,
     linked_issue : IssueNumbers \cup {0}]

WorkflowEvents ==
    [action : {"completed"}, run_id : RunIds, head_sha : Shas,
     repo : {RepoName}, installation_id : InstallationIds]
    \cup {[action |-> "requested", run_id |-> 7, head_sha |-> "sha1",
           repo |-> RepoName, installation_id |-> 55],
          [action |-> "completed", run_id |-> 7, head_sha |-> "sha1",
           repo |-> RepoName, installation_id |-> 0]}

\* the webhook's requests: the body that arrives, what signs it, and the headers
WebhookSecret == "whsec"
SecretGuesses == {"guess"}

\* a body is a JSON object with an action, a JSON array, or no JSON at all
BodyOpened == [kind |-> "object", action |-> "opened"]
BodyCompleted == [kind |-> "object", action |-> "completed"]
BodyArray == [kind |-> "array", action |-> None]
BodyText == [kind |-> "text", action |-> None]
NoBody == [kind |-> None, action |-> None]

\* A digest as the header carries it: the hex HMAC-SHA256 of a message under a
\* key, as it is ("") or with a hex digit changed ("bitflip"), or a text with a
\* character outside ASCII ("non-ascii"). The HMAC is an ideal keyed hash: two
\* digests are equal exactly when key, message and change are.
Digest(key, msg, tamper) == [key |-> key, msg |-> msg, tamper |-> tamper]

\* hmac.new(secret, msg=body, digestmod=sha256).hexdigest()
Hmac(key, msg) == Digest(key, msg, "")

\* str.isascii
IsAscii(digest) == digest.tamper # "non-ascii"

\* X-Hub-Signature-256: the text before the digest, and the digest
NoHeader == [scheme |-> None, digest |-> Hmac(None, NoBody)]

\* a body other than the one sent, signed by the sender of an earlier delivery
OtherBody(body) == IF body = BodyOpened THEN BodyCompleted ELSE BodyOpened

\* the signature headers a request with this body may carry: none, the right
\* one, one made with a guessed secret, the right one of another body, the
\* right digest announced as sha1, the right one with a hex digit changed, and
\* one that is no ASCII text
SignatureHeaders(body) ==
    {NoHeader,
     [scheme |-> "sha256=", digest |-> Hmac(WebhookSecret, body)],
     [scheme |-> "sha256=", digest |-> Hmac(WebhookSecret, OtherBody(body))],
     [scheme |-> "sha1=", digest |-> Hmac(WebhookSecret, body)],
     [scheme |-> "sha256=", digest |-> Digest(WebhookSecret, body, "bitflip")],
     [scheme |-> "sha256=", digest |-> Digest(WebhookSecret, body, "non-ascii")]}
    \cup {[scheme |-> "sha256=", digest |-> Hmac(k, body)] : k \in SecretGuesses}

\* X-GitHub-Delivery, 0 for a request without the header: one id more than the
\* cache holds
DeliveryIds == 1..(MAX_CACHE_SIZE + 1)

\* X-GitHub-Event with the body it comes with
Deliveries ==
    {[event |-> "issues", body |-> BodyOpened],
     [event |-> "pull_request", body |-> BodyOpened],
     [event |-> "workflow_run", body |-> BodyCompleted],
     [event |-> "issues", body |-> BodyCompleted],
     [event |-> "issues", body |-> BodyText],
     [event |-> "workflow_run", body |-> BodyArray]}

Requests ==
    UNION {[event : {d.event}, body : {d.body}, delivery : DeliveryIds \cup {0},
            signature : SignatureHeaders(d.body)] : d \in Deliveries}

\* the requests that arrive while others are being handled: rightly signed
\* deliveries of an opened issue (handled) and of a completed one (ignored)
ConcurrentRequests ==
    UNION {[event : {"issues"}, body : {body}, delivery : DeliveryIds,
            signature : {[scheme |-> "sha256=", digest |-> Hmac(WebhookSecret, body)]}] :
           body \in {BodyOpened, BodyCompleted}}

\* ------------------------------------------------------------------ state
VARIABLES
    auto_merge_enabled,   \* settings.auto_merge_enabled
    issues,               \* table issues: the row with id i is issues[i]
    pull_requests,        \* table pull_requests
    test_results,         \* table test_results
    reports,              \* table reports
    last_run,             \* how the latest handle_workflow_run ended: what it
                          \* returned or raised, the verdict it computed, the
                          \* merge attempt it made, and what the provider was
                          \* going to answer to a merge call
    gate,                 \* how the latest attempt_merge called on its own ended
    processed_events,     \* webhooks.py: the set of delivery ids seen
    background_tasks,     \* the tasks github_webhook handed to add_task, in order
    request,              \* the request github_webhook handled last
    response,             \* and what it answered
    signature_check,      \* the call of verify_github_signature made for that
                          \* request: its arguments and how it ended
    cache_history,        \* order: the ids of processed_events, earliest inserted
                          \* first; evicted: the id the latest insertion made
                          \* the set give up, 0 when it gave up none
    in_flight,            \* the calls of github_webhook on the event loop: for
                          \* each, where it is ("reading": at the await of line
                          \* 53), its request, its answer, and the calls that
                          \* were reading when it went on (peers)
    now,                  \* datetime.utcnow(), in steps of five minutes
    handlers,             \* the event handlers of webhooks.py lines 107-151:
                          \* where each is, the _token_cache of the
                          \* GitHubService it constructed, and, while it waits
                          \* for the provider, the installation id it asked a
                          \* token for and the number of its exchange
    token_posts,          \* the POSTs to .../access_tokens made so far
    obtained,             \* for each installation id, the latest expiry among
                          \* the tokens the provider gave out for it, and the
                          \* handler that obtained that token
    handled,              \* what the task of webhooks.py that ran last did
    computed,             \* a function of the services called on its own: its
                          \* arguments and, once it has returned, its result
    sessions,             \* for each background task that runs beside the
                          \* others with a database session of its own: the
                          \* await it has reached, its event and what its
                          \* lookups returned
    token_call            \* what get_installation_token did in the step just
                          \* taken: the call up to its return, raise or
                          \* await, or the rest of the call once the provider
                          \* has answered

pipeline_vars == <<auto_merge_enabled, issues, pull_requests, test_results, reports,
                   last_run, gate>>
webhook_vars == <<processed_events, background_tasks, request, response,
                  signature_check, cache_history>>
vars == <<auto_merge_enabled, issues, pull_requests, test_results, reports, last_run, gate,
          processed_events, background_tasks, request, response,
          signature_check, cache_history, in_flight,
          now, handlers, token_posts, obtained, token_call, handled, computed, sessions>>
token_vars == <<now, handlers, token_posts, obtained, token_call>>
outside_tasks == <<webhook_vars, in_flight, token_vars, computed, sessions>>
outside_pipeline == <<outside_tasks, handled>>

NoRun == [outcome |-> "none"]
NoAttempt == [kind |-> "none"]
NoGate == [invoked |-> FALSE]
NoRequest == [event |-> None, signature |-> NoHeader, delivery |-> 0, body |-> NoBody]
NoResponse == [status |-> 0, detail |-> None]
NoCheck == [called |-> FALSE]
Idle == [phase |-> "idle", req |-> NoRequest, response |-> NoResponse, peers |-> {}]

\* the installations get_installation_token is asked tokens for
Installations == {55, 77}
\* a cache entry (token, expires_at); tokens are numbered from 1, and no entry
\* is the entry with token 0
NoEntry == [token |-> 0, at |-> 0, aware |-> FALSE]
\* GitHubService.__init__: self._token_cache = {}
EmptyTokenCache == [installation_id \in Installations |-> NoEntry]
NoHandler == [phase |-> "none", installation_id |-> 0, post |-> 0,
              token_cache |-> EmptyTokenCache]
NoExpiry == [at |-> 0, zone |-> ""]
NoAnswer == [kind |-> "none", expires_at |-> NoExpiry]
TokenReturned(token) == [kind |-> "return", token |-> token, error |-> None]
TokenRaised(error) == [kind |-> "raise", token |-> 0, error |-> error]
TokenAwaited == [kind |-> "await", token |-> 0, error |-> None]
NoTask == [handler |-> "none", outcome |-> "none", error |-> None, calls |-> <<>>,
           comment |-> [attempted |-> FALSE, posted |-> FALSE, body |-> <<>>],
           escaped |-> FALSE]
NoTokenCall == [step |-> "none", handler |-> 0, installation_id |-> 0, time |-> 0,
                before |-> EmptyTokenCache, after |-> EmptyTokenCache,
                answer |-> NoAnswer, outcome |-> TokenRaised(None), posted |-> FALSE]

NoComputation == [function |-> "none", done |-> FALSE]
\* a session that is not in a handler
NoSubject == [repo |-> None]
NoSession == [phase |-> "idle", event |-> NoSubject, checklist_items |-> <<>>,
              fetch |-> Raise, issue_row |-> 0, existing |-> 0, error |-> None]

\* the state after construction, but for the function called on its own
Constructed ==
    /\ auto_merge_enabled \in BOOLEAN
    /\ issues = <<>>
    /\ pull_requests = <<>>
    /\ test_results = <<>>
    /\ reports = <<>>
    /\ last_run = NoRun
    /\ gate = NoGate
    /\ processed_events = {}
    /\ background_tasks = <<>>
    /\ request = NoRequest
    /\ response = NoResponse
    /\ signature_check = NoCheck
    /\ cache_history = [order |-> <<>>, evicted |-> 0]
    /\ in_flight = [call \in 1..MaxRequests |-> Idle]
    /\ now = 0
    /\ handlers = [h \in 1..MaxHandlers |-> NoHandler]
    /\ token_posts = 0
    /\ obtained = [installation_id \in Installations |-> [at |-> 0, by |-> 0]]
    /\ token_call = NoTokenCall
    /\ handled = NoTask
    /\ sessions = [s \in 1..MaxSessions |-> NoSession]

Init ==
    /\ Constructed
    /\ computed = NoComputation

\* ------------------------------------------------------- db_adapter.py
\* get_issue_by_repo_and_number: the id of the row, 0 when there is none
GetIssueByRepoAndNumber(repo, issue_number) ==
    LET hits == {i \in 1..Len(issues) :
                    issues[i].repo = repo /\ issues[i].issue_number = issue_number}
    IN IF hits = {} THEN 0 ELSE CHOOSE i \in hits : TRUE

GetPrByRepoAndNumber(repo, pr_number) ==
    LET hits == {i \in 1..Len(pull_requests) :
                    pull_requests[i].repo = repo /\ pull_requests[i].pr_number = pr_number}
    IN IF hits = {} THEN 0 ELSE CHOOSE i \in hits : TRUE

\* a lookup of the latest created row of the repository, whatever its head
FindPrOfRepo(repo, head_sha) ==
    LET hits == {i \in 1..Len(pull_requests) : pull_requests[i].repo = repo}
    IN IF hits = {} THEN 0 ELSE CHOOSE i \in hits : \A j \in hits : j <= i

\* ci_mapper.py _find_pr_by_sha: the latest created row with that head
FindPrBySha(repo, head_sha) ==
    LET hits == {i \in 1..Len(pull_requests) :
                    pull_requests[i].repo = repo /\ pull_requests[i].head_sha = head_sha}
    IN IF hits = {} THEN 0 ELSE CHOOSE i \in hits : \A j \in hits : j <= i

\* ------------------------------------- checklist_service.py: the handler
\* a comment whose failure goes to the caller
CommentOutcomePropagating(comment_ok) == IF comment_ok THEN "posted" ELSE "raised"

\* checklist_service.py lines 83-96, ci_mapper.py lines 93-102: the comment
\* is posted inside try/except Exception, a failure is logged and the handler
\* goes on
CommentOutcome(comment_ok) == IF comment_ok THEN "posted" ELSE "logged"

\* line 42: not all([issue_number, repo_full_name, installation_id])
MissingIssueFields(event) ==
    event.issue_number = 0 \/ event.repo = None \/ event.installation_id = 0

\* a suggester whose failure leaves the item of an earlier answer behind
LlmChecklistKeepingOnFailure(provider, llm_reply) ==
    IF provider = "none" THEN <<>>
    ELSE IF llm_reply.kind = "raise" THEN <<LlmItemEmail>>
    ELSE llm_reply.value

\* lines 51-56: the suggester is asked unless the provider is "none", and an
\* exception of it leaves llm_checklist = []
LlmChecklist(provider, llm_reply) ==
    IF provider = "none" THEN <<>>
    ELSE IF llm_reply.kind = "raise" THEN <<>>
    ELSE llm_reply.value

HandleIssueEvent(event, provider, llm_reply, comment_ok) ==
    /\ ~MissingIssueFields(event)
    /\ LET llm_checklist == LlmChecklist(provider, llm_reply)
           checklist == NormalizeChecklist(event.criteria, llm_checklist)
           existing == GetIssueByRepoAndNumber(event.repo, event.issue_number)
       IN issues' = IF existing # 0
                    THEN [issues EXCEPT ![existing].checklist = checklist,
                                        ![existing].status = event.state]
                    ELSE Append(issues, [repo |-> event.repo,
                                         issue_number |-> event.issue_number,
                                         checklist |-> checklist,
                                         status |-> event.state])
    /\ UNCHANGED <<auto_merge_enabled, pull_requests, test_results, reports, last_run, gate>>

\* ---------------------------------------- testgen_service.py: the handler
\* a check that does not ask for the installation id
MissingPrFieldsButInstallation(event) ==
    event.pr_number = 0 \/ event.head_sha = None \/ event.repo = None

\* line 44: not all([pr_number, head_sha, repo_full_name, installation_id])
MissingPrFields(event) ==
    \/ event.pr_number = 0 \/ event.head_sha = None
    \/ event.repo = None \/ event.installation_id = 0

\* an update that leaves the manifest of the row as it was
PrRowAfterSyncKeepingManifest(row, head_sha, issue_id, manifest) ==
    [row EXCEPT !.head_sha = head_sha,
                !.issue_id = issue_id,
                !.validation_status = "pending"]

\* lines 105-108: the row of the pull request takes the new head, issue and
\* manifest
PrRowAfterSync(row, head_sha, issue_id, manifest) ==
    [row EXCEPT !.head_sha = head_sha,
                !.issue_id = issue_id,
                !.test_manifest = manifest,
                !.validation_status = "pending"]

\* a fetch whose failure leaves the diff of a changed README
FetchedDiffOrReadme(fetch) ==
    IF fetch.kind = "raise" THEN [symbols |-> <<>>, files |-> <<"README.md">>]
    ELSE fetch.value

\* lines 84-90: the diff and the files, both empty when either fetch raises
FetchedDiff(fetch) ==
    IF fetch.kind = "raise" THEN [symbols |-> <<>>, files |-> <<>>]
    ELSE fetch.value

HandlePrEvent(event, fetch) ==
    /\ ~MissingPrFields(event)
    /\ event.action \in {"opened", "synchronize"}
    /\ LET issue_row == IF event.linked_issue = 0 THEN 0
                        ELSE GetIssueByRepoAndNumber(event.repo, event.linked_issue)
           checklist_items == IF issue_row = 0 THEN <<>> ELSE issues[issue_row].checklist
           diff == FetchedDiff(fetch)
           manifest == GenerateTestManifest(event.pr_number, event.head_sha,
                                            diff.symbols, diff.files, checklist_items)
           existing == GetPrByRepoAndNumber(event.repo, event.pr_number)
       IN pull_requests' =
            IF existing # 0
            THEN [pull_requests EXCEPT ![existing] =
                     PrRowAfterSync(pull_requests[existing], event.head_sha,
                                    issue_row, manifest)]
            ELSE Append(pull_requests, [repo |-> event.repo,
                                        pr_number |-> event.pr_number,
                                        issue_id |-> issue_row,
                                        head_sha |-> event.head_sha,
                                        test_manifest |-> manifest,
                                        validation_status |-> "pending"])
    /\ UNCHANGED <<auto_merge_enabled, issues, test_results, reports, last_run, gate>>

\* ------------------------------------------- ci_mapper.py: the handler
\* line 156: "autoqa" or "test-report" occurs in the artifact's name
IsReportArtifact(name) == name \in {"autoqa-report"}

\* _download_and_parse_artifacts, lines 149-186: an artifact whose download or
\* parse raises is logged and skipped
DownloadAndParseArtifacts(artifacts) ==
    Flatten([a \in 1..Len(artifacts) |->
        IF IsReportArtifact(artifacts[a].name) /\ artifacts[a].content.kind = "ok"
        THEN artifacts[a].content.value ELSE <<>>])

\* a lookup that falls back on the first issue of the table
ChecklistOfPrOrFirstIssue(pr_row) ==
    IF pr_row.issue_id # 0 /\ pr_row.issue_id \in 1..Len(issues)
    THEN issues[pr_row.issue_id].checklist
    ELSE IF issues # <<>> THEN issues[1].checklist ELSE <<>>

\* lines 198-205: the checklist of the issue the pull request is linked to
ChecklistOfPr(pr_row) ==
    IF pr_row.issue_id # 0 /\ pr_row.issue_id \in 1..Len(issues)
    THEN issues[pr_row.issue_id].checklist ELSE <<>>

\* lines 208-209 (handle_pr_event always stores a manifest)
ManifestTestsOfPr(pr_row) == pr_row.test_manifest.tests

\* line 105: the handler goes on to the merge gate
MergeAuthorized(enabled, compliance) ==
    enabled /\ compliance.required_passed = compliance.required_total

\* lines 111-117
ReportResult(pr_id, compliance, report_id) ==
    [pr_id |-> pr_id,
     compliance_score |-> compliance.score,
     required_passed |-> compliance.required_passed,
     required_total |-> compliance.required_total,
     report_id |-> report_id]

Raised(error) == [outcome |-> "raised", error |-> error]

\* line 63: not all([run_id, head_sha, repo_full_name, installation_id])
MissingWorkflowFields(event) ==
    \/ event.run_id = 0 \/ event.head_sha = None
    \/ event.repo = None \/ event.installation_id = 0

\* listing: what list_workflow_run_artifacts answers when it is called;
\* comment_ok: whether post_pr_comment succeeds
HandleWorkflowRunCommenting(event, listing, comment_ok) ==
    /\ IF event.action # "completed"
       THEN /\ last_run' = Raised("Unexpected workflow_run action")
            /\ UNCHANGED <<test_results, reports>>
       ELSE IF MissingWorkflowFields(event)
       THEN /\ last_run' = Raised("Missing required fields in workflow_run event")
            /\ UNCHANGED <<test_results, reports>>
       ELSE IF FindPrBySha(event.repo, event.head_sha) = 0
       THEN /\ last_run' = Raised("PR not found for SHA")
            /\ UNCHANGED <<test_results, reports>>
       ELSE IF listing.kind = "raise"
            THEN /\ last_run' = Raised("GitHub API request failed")
                 /\ UNCHANGED <<test_results, reports>>
            ELSE LET pr_id == FindPrBySha(event.repo, event.head_sha)
                     pr_row == pull_requests[pr_id]
                     results == DownloadAndParseArtifacts(listing.value)
                     checklist_items == ChecklistOfPr(pr_row)
                     manifest_tests == ManifestTestsOfPr(pr_row)
                     compliance == Compliance(manifest_tests, checklist_items, results)
                 IN /\ test_results' = test_results
                           \o TestResultRows(pr_id, manifest_tests, checklist_items, results)
                    /\ reports' = Append(reports, [pr_id |-> pr_id,
                                                   summary |-> compliance.score,
                                                   report_content |-> compliance])
                    /\ IF CommentOutcome(comment_ok) = "raised"
                       THEN last_run' = Raised("Failed to post PR comment")
                       ELSE IF MergeAuthorized(auto_merge_enabled, compliance)
                       THEN \E bp \in BranchProtectionReplies, mr \in MergeReplies :
                            last_run' = [outcome |-> "returned",
                                         ret |-> ReportResult(pr_id, compliance, Len(reports) + 1),
                                         compliance |-> compliance,
                                         merge_attempted |-> TRUE,
                                         merge |-> AttemptMerge(auto_merge_enabled, bp, mr),
                                         provider_merge |-> mr]
                       ELSE last_run' = [outcome |-> "returned",
                                         ret |-> ReportResult(pr_id, compliance, Len(reports) + 1),
                                         compliance |-> compliance,
                                         merge_attempted |-> FALSE,
                                         merge |-> NoAttempt,
                                         provider_merge |-> NoReply]
    /\ UNCHANGED <<auto_merge_enabled, issues, pull_requests, gate>>

\* the handler when the comment is posted
HandleWorkflowRun(event, listing) == HandleWorkflowRunCommenting(event, listing, TRUE)

\* MergeService.attempt_merge called by a client of the service
AttemptMergeCall(pr_id) ==
    /\ \E bp \in BranchProtectionReplies, mr \in MergeReplies :
        gate' = [invoked |-> TRUE, pr_id |-> pr_id,
                 attempt |-> AttemptMerge(auto_merge_enabled, bp, mr)]
    /\ UNCHANGED <<auto_merge_enabled, issues, pull_requests, test_results, reports, last_run>>

\* ------------------------------------------------------ utils/security.py
\* a check of the header's scheme alone
VerifySchemeOnly(secret, signature_header, body) ==
    Ok(signature_header.scheme = "sha256=")

\* verify_github_signature: what it returns, or Raise. Line 39:
\* hmac.compare_digest raises TypeError for a str with a non-ASCII character
VerifyGithubSignature(secret, signature_header, body) ==
    IF signature_header.scheme # "sha256="
    THEN Ok(FALSE)
    ELSE IF ~IsAscii(signature_header.digest)
    THEN Raise
    ELSE Ok(Hmac(secret, body) = signature_header.digest)

\* ----------------------------------------------------------- api/webhooks.py
HttpException(status_code, detail) == [status |-> status_code, detail |-> detail]
JSONResponse(status) == [status |-> 200, detail |-> status]

\* an insertion that keeps every id
CachesAfterAddKeepingAll(cache, delivery) == {cache \cup {delivery}}

\* lines 78-81: the cache with the delivery id added, one arbitrary element
\* taken out again (set.pop) when that makes it larger than MAX_CACHE_SIZE
CachesAfterAdd(cache, delivery) ==
    LET added == cache \cup {delivery}
    IN IF Cardinality(added) > MAX_CACHE_SIZE
       THEN {added \ {victim} : victim \in added}
       ELSE {added}

\* the history of the cache once `delivery` was inserted and the set became
\* `cache`
HistoryAfterAdd(history, delivery, cache) ==
    LET order == Append(history.order, delivery)
        gone == Range(order) \ cache
    IN [order |-> FilterSeq(order, [i \in 1..Len(order) |-> order[i] \in cache]),
        evicted |-> IF gone = {} THEN 0 ELSE CHOOSE id \in gone : TRUE]

\* lines 90-104: the task the event is routed to, None for an event not handled
HandlerFor(event_type, action) ==
    IF event_type = "issues" /\ action = "opened" THEN "handle_issue_event"
    ELSE IF event_type = "pull_request" /\ action \in {"opened", "synchronize"}
    THEN "handle_pr_event"
    ELSE IF event_type = "workflow_run" /\ action = "completed"
    THEN "handle_workflow_run_event"
    ELSE None

\* github_webhook
GithubWebhook(req) ==
    /\ Len(background_tasks) < MaxTasks
    /\ request' = req
    /\ signature_check' =
            IF req.signature.scheme = None THEN NoCheck
            ELSE [called |-> TRUE, secret |-> WebhookSecret,
                  signature_header |-> req.signature, body |-> req.body,
                  outcome |-> VerifyGithubSignature(WebhookSecret, req.signature, req.body)]
    /\ IF req.signature.scheme = None
       THEN /\ response' = HttpException(401, "Missing signature header")
            /\ UNCHANGED <<processed_events, background_tasks, cache_history>>
       ELSE IF VerifyGithubSignature(WebhookSecret, req.signature, req.body).kind = "raise"
       THEN \* the TypeError is nobody's to catch
            /\ response' = HttpException(500, "Internal Server Error")
            /\ UNCHANGED <<processed_events, background_tasks, cache_history>>
       ELSE IF ~VerifyGithubSignature(WebhookSecret, req.signature, req.body).value
       THEN /\ response' = HttpException(401, "Invalid signature")
            /\ UNCHANGED <<processed_events, background_tasks, cache_history>>
       ELSE IF req.body.kind = "text"
       THEN /\ response' = HttpException(400, "Invalid JSON payload")
            /\ UNCHANGED <<processed_events, background_tasks, cache_history>>
       ELSE IF req.delivery # 0 /\ req.delivery \in processed_events
       THEN /\ response' = JSONResponse("already_processed")
            /\ UNCHANGED <<processed_events, background_tasks, cache_history>>
       ELSE /\ IF req.delivery # 0
               THEN /\ processed_events' \in CachesAfterAdd(processed_events, req.delivery)
                    /\ cache_history' = HistoryAfterAdd(cache_history, req.delivery,
                                                        processed_events')
               ELSE UNCHANGED <<processed_events, cache_history>>
            /\ IF req.body.kind # "object"
               THEN \* payload.get on a list: an AttributeError nobody catches
                    /\ response' = HttpException(500, "Internal Server Error")
                    /\ UNCHANGED background_tasks
               ELSE IF HandlerFor(req.event, req.body.action) # None
               THEN /\ background_tasks' =
                        Append(background_tasks,
                               [handler |-> HandlerFor(req.event, req.body.action),
                                payload |-> req.body])
                    /\ response' = JSONResponse("accepted")
               ELSE /\ response' = JSONResponse("ignored")
                    /\ UNCHANGED background_tasks

\* ------------------------------------------------------ the specification
IssueEvent ==
    /\ \E event \in IssueEvents, provider \in LlmProviders, llm_reply \in LlmReplies,
          comment_ok \in BOOLEAN :
            HandleIssueEvent(event, provider, llm_reply, comment_ok)
    /\ UNCHANGED outside_pipeline

PrEvent ==
    /\ \E event \in PrEvents, fetch \in {Ok(d) : d \in DiffInputs} \cup {Raise} :
            HandlePrEvent(event, fetch)
    /\ UNCHANGED outside_pipeline

WorkflowRunEvent ==
    /\ Len(reports) < Cardinality(RunIds)
    /\ \E event \in WorkflowEvents, listing \in {Ok(l) : l \in ArtifactLists} \cup {Raise} :
            HandleWorkflowRun(event, listing)
    /\ UNCHANGED outside_pipeline

MergeCall ==
    /\ \E pr_id \in 1..Len(pull_requests) : AttemptMergeCall(pr_id)
    /\ UNCHANGED outside_pipeline

Next == IssueEvent \/ PrEvent \/ WorkflowRunEvent \/ MergeCall

Spec == Init /\ [][Next]_vars

\* ------------------------------------------- api/webhooks.py: the tasks
\* _format_checklist_comment (checklist_service.py lines 148-175): one line
\* for each item, or the notice that no criteria were found
FormatChecklistComment(checklist_items) ==
    IF checklist_items = <<>>
    THEN <<[id |-> None, description |-> <<"No", "acceptance", "criteria", "found">>,
            badge |-> None, tags |-> <<>>]>>
    ELSE [k \in 1..Len(checklist_items) |->
            [id |-> checklist_items[k].id,
             description |-> checklist_items[k].description,
             badge |-> IF checklist_items[k].required THEN "**Required**" ELSE "Optional",
             tags |-> checklist_items[k].tags]]

\* the events the tasks are given: those of the pipeline, and events that
\* lack one of the fields the handlers ask for
TaskIssueEvents ==
    IssueEvents
    \cup {[issue_number |-> 1, repo |-> None, installation_id |-> 55,
           state |-> "open", criteria |-> <<TEmail, TLogin>>],
          [issue_number |-> 1, repo |-> RepoName, installation_id |-> 0,
           state |-> "open", criteria |-> <<TEmail, TLogin>>]}

TaskPrEvents ==
    [action : {"opened"}, pr_number : PrNumbers,
     head_sha : {"sha1"}, repo : {RepoName}, installation_id : InstallationIds,
     linked_issue : IssueNumbers \cup {0}]
    \cup [action : {"synchronize"}, pr_number : PrNumbers,
          head_sha : {"sha2"}, repo : {RepoName}, installation_id : InstallationIds,
          linked_issue : IssueNumbers \cup {0}]
    \cup {[action |-> "closed", pr_number |-> 1, head_sha |-> "sha2", repo |-> RepoName,
           installation_id |-> 55, linked_issue |-> 1],
          [action |-> "opened", pr_number |-> 0, head_sha |-> "sha1", repo |-> RepoName,
           installation_id |-> 55, linked_issue |-> 1],
          [action |-> "synchronize", pr_number |-> 1, head_sha |-> None, repo |-> RepoName,
           installation_id |-> 55, linked_issue |-> 1],
          [action |-> "opened", pr_number |-> 1, head_sha |-> "sha1", repo |-> None,
           installation_id |-> 55, linked_issue |-> 1],
          [action |-> "synchronize", pr_number |-> 1, head_sha |-> "sha2", repo |-> RepoName,
           installation_id |-> 0, linked_issue |-> 1]}

TaskWorkflowEvents ==
    WorkflowEvents
    \cup {[action |-> "completed", run_id |-> 0, head_sha |-> "sha1",
           repo |-> RepoName, installation_id |-> 55],
          [action |-> "completed", run_id |-> 7, head_sha |-> None,
           repo |-> RepoName, installation_id |-> 55],
          [action |-> "completed", run_id |-> 7, head_sha |-> "sha1",
           repo |-> None, installation_id |-> 55]}

PassedEmail == [name |-> <<"test", "validate", "email", "autoqa">>, status |-> "passed"]
FailedLogin == [name |-> <<"test", "validate", "login", "autoqa">>, status |-> "failed"]
BrokenReport == [name |-> "autoqa-report", content |-> Raise]
GoodReport(results) == [name |-> "autoqa-report", content |-> Ok(results)]

\* what list_workflow_run_artifacts answers to a task: it raises, or lists no
\* artifact, a report, a report that does not parse, or both
TaskListings ==
    {Raise, Ok(<<>>), Ok(<<BrokenReport>>), Ok(<<GoodReport(<<PassedEmail>>)>>),
     Ok(<<GoodReport(<<PassedEmail, FailedLogin>>)>>),
     Ok(<<BrokenReport, GoodReport(<<PassedEmail>>)>>)}

\* the provider of the language model, and what it answers when it is asked
LlmSettings ==
    {[provider |-> "none", llm_reply |-> Ok(<<>>)]}
    \cup [provider : {"groq"}, llm_reply : LlmReplies]

NoComment == [attempted |-> FALSE, posted |-> FALSE, body |-> <<>>]

\* what a task did: how its service ended, the calls it made to the language
\* model and to the provider, the comment it sent, and whether an exception
\* left the task (the tasks log every Exception)
Handled(handler, outcome, error, calls, comment) ==
    [handler |-> handler, outcome |-> outcome, error |-> error, calls |-> calls,
     comment |-> comment, escaped |-> FALSE]

\* handle_issue_event of webhooks.py (lines 107-119) around
\* ChecklistService.handle_issue_event; line 118 logs every exception
IssueTask(event, provider, llm_reply, comment_ok) ==
    IF MissingIssueFields(event)
       THEN /\ handled' = Handled("issue", "raised",
                                  "Missing required fields in issue event", <<>>, NoComment)
            /\ UNCHANGED pipeline_vars
       ELSE /\ HandleIssueEvent(event, provider, llm_reply, comment_ok)
            /\ handled' = Handled("issue",
                    IF CommentOutcome(comment_ok) = "raised" THEN "raised" ELSE "returned",
                    IF CommentOutcome(comment_ok) = "raised"
                    THEN "Failed to post checklist comment" ELSE None,
                    (IF provider # "none" THEN <<"parse_issue_to_checklist">> ELSE <<>>)
                    \o <<"post_issue_comment">>,
                    [attempted |-> TRUE,
                     posted |-> comment_ok,
                     body |-> FormatChecklistComment(
                                NormalizeChecklist(event.criteria,
                                                   LlmChecklist(provider, llm_reply)))])

\* handle_pr_event of webhooks.py (lines 122-133) around
\* TestGenService.handle_pr_event; an action other than opened and synchronize
\* returns the row there is, or raises (testgen_service.py lines 50-56)
PrTask(event, fetch) ==
    IF MissingPrFields(event)
       THEN /\ handled' = Handled("pr", "raised",
                                  "Missing required fields in PR event", <<>>, NoComment)
            /\ UNCHANGED pipeline_vars
       ELSE IF event.action \notin {"opened", "synchronize"}
       THEN /\ handled' = IF GetPrByRepoAndNumber(event.repo, event.pr_number) # 0
                          THEN Handled("pr", "returned", None, <<>>, NoComment)
                          ELSE Handled("pr", "raised",
                                       "Unexpected PR action", <<>>, NoComment)
            /\ UNCHANGED pipeline_vars
       ELSE /\ HandlePrEvent(event, fetch)
            /\ handled' = Handled("pr", "returned", None,
                    IF fetch.kind = "raise" THEN <<"get_pr_diff">>
                    ELSE <<"get_pr_diff", "get_pr_files">>,
                    NoComment)

\* the calls handle_workflow_run makes to the provider before the merge gate
\* (ci_mapper.py lines 142, 161, 94): the listing, a download for each report
\* artifact, the comment
RECURSIVE Downloads(_)
Downloads(artifacts) ==
    IF artifacts = <<>> THEN <<>>
    ELSE (IF IsReportArtifact(Head(artifacts).name) THEN <<"download_artifact">> ELSE <<>>)
         \o Downloads(Tail(artifacts))

\* handle_workflow_run_event of webhooks.py (lines 136-151) around
\* CIMapper.handle_workflow_run
WorkflowTaskCommenting(event, listing, comment_ok) ==
    /\ HandleWorkflowRunCommenting(event, listing, comment_ok)
    /\ handled' =
         IF last_run'.outcome = "raised"
         THEN IF last_run'.error = "Failed to post PR comment"
              THEN Handled("workflow_run", "raised", last_run'.error,
                           <<"list_workflow_run_artifacts">> \o Downloads(listing.value)
                           \o <<"post_pr_comment">>,
                           [attempted |-> TRUE, posted |-> FALSE, body |-> <<>>])
              ELSE Handled("workflow_run", "raised", last_run'.error,
                           IF last_run'.error = "GitHub API request failed"
                           THEN <<"list_workflow_run_artifacts">> ELSE <<>>,
                           NoComment)
         ELSE Handled("workflow_run", "returned", None,
                      <<"list_workflow_run_artifacts">> \o Downloads(listing.value)
                      \o <<"post_pr_comment">>,
                      [attempted |-> TRUE, posted |-> comment_ok,
                       body |-> <<last_run'.compliance>>])

\* the task when the comment is posted
WorkflowTask(event, listing) == WorkflowTaskCommenting(event, listing, TRUE)

IssueTaskRuns ==
    /\ \E event \in TaskIssueEvents, llm \in LlmSettings, comment_ok \in BOOLEAN :
            IssueTask(event, llm.provider, llm.llm_reply, comment_ok)
    /\ UNCHANGED outside_tasks

PrTaskRuns ==
    /\ \E event \in TaskPrEvents, fetch \in {Ok(d) : d \in DiffInputs} \cup {Raise} :
            PrTask(event, fetch)
    /\ UNCHANGED outside_tasks

WorkflowTaskRuns ==
    /\ Len(reports) < Cardinality(RunIds)
    /\ \E event \in TaskWorkflowEvents, listing \in TaskListings : WorkflowTask(event, listing)
    /\ UNCHANGED outside_tasks

NextEvents == IssueTaskRuns \/ PrTaskRuns \/ WorkflowTaskRuns

SpecEvents == Init /\ [][NextEvents]_vars

\* the tasks of well-formed events, with several workflow runs of one pull
\* request
IssueRecorded ==
    /\ \E event \in {e \in IssueEvents : e.issue_number # 0} :
            \E comment_ok \in BOOLEAN : IssueTask(event, "none", Ok(<<>>), comment_ok)
    /\ UNCHANGED outside_tasks

PrRecorded ==
    /\ \E event \in {e \in TaskPrEvents :
                        ~MissingPrFields(e) /\ e.action \in {"opened", "synchronize"}},
          fetch \in {Ok(d) : d \in DiffInputs} :
            PrTask(event, fetch)
    /\ UNCHANGED outside_tasks

RunReported ==
    /\ Len(reports) < MaxRuns
    /\ \E event \in {e \in WorkflowEvents :
                        e.action = "completed" /\ ~MissingWorkflowFields(e)},
          listing \in TaskListings \ {Raise}, comment_ok \in BOOLEAN :
            WorkflowTaskCommenting(event, listing, comment_ok)
    /\ UNCHANGED outside_tasks

NextRuns == IssueRecorded \/ PrRecorded \/ RunReported

SpecRuns == Init /\ [][NextRuns]_vars

\* ------------------------------------ the merge of the two checklists
\* llm_adapter.py lines 111-119: the items of the JSON the model answered
\* become checklist items; an item without id takes C{i+1} of its place i
\* (0-based), `required` defaults to True and `tags` to []
ParseWithGroq(raw_items) ==
    [i \in 1..Len(raw_items) |->
        [id |-> IF raw_items[i].id = None THEN CId(i) ELSE raw_items[i].id,
         description |-> raw_items[i].description,
         required |-> TRUE,
         tags |-> <<>>]]

TEmailShort == <<"must", "validate", "email">>

\* the criteria extract_acceptance_criteria can hand over: no two of them
\* equal but for case (parser.py lines 52-57)
MergeCriteria ==
    {texts \in SeqsUpTo({TEmail, TEmailShort, TLogin}, MaxTexts) :
        \A i, j \in 1..Len(texts) : i # j => LowerText(texts[i]) # LowerText(texts[j])}

\* the items of the model's JSON: with an id of their own, or without
RawItems ==
    [id : {None, "C1", "C2"},
     description : {<<"validate", "email">>, <<"show", "login", "errors">>}]

MergeInputs ==
    [function : {"_normalize_checklist"},
     criteria_texts : MergeCriteria,
     raw_items : SeqsUpTo(RawItems, MaxLlmItems),
     llm_checklist : {<<>>},
     result : {<<>>},
     done : {FALSE}]

InitMerge ==
    /\ Constructed
    /\ computed \in MergeInputs

\* checklist_service.py lines 48-59 without the extraction: the model's items
\* are parsed, then merged with the criteria
NormalizeCalled ==
    /\ computed.function = "_normalize_checklist"
    /\ ~computed.done
    /\ LET llm_checklist == ParseWithGroq(computed.raw_items)
       IN computed' = [computed EXCEPT
                          !.llm_checklist = llm_checklist,
                          !.result = NormalizeChecklist(computed.criteria_texts, llm_checklist),
                          !.done = TRUE]
    /\ UNCHANGED <<pipeline_vars, webhook_vars, in_flight, token_vars, handled, sessions>>

NextMerge == NormalizeCalled

SpecMerge == InitMerge /\ [][NextMerge]_vars

\* ------------------------------ parser.py: the end of the extraction
\* A candidate is the sequence of its characters.
LowerChar(c) ==
    CASE c = "F" -> "f" [] c = "I" -> "i" [] c = "X" -> "x" [] c = "L" -> "l"
      [] c = "O" -> "o" [] c = "G" -> "g" [] c = "N" -> "n" [] c = "S" -> "s"
      [] OTHER -> c

\* item.lower()
LowerItem(item) == [i \in 1..Len(item) |-> LowerChar(item[i])]

Fix9 == <<"F", "i", "x", " ", "l", "o", "g", "i", "n">>
Fix10 == <<"F", "i", "x", " ", "l", "o", "g", "i", "n", "s">>
Fix11 == <<"F", "i", "x", " ", "l", "o", "g", "i", "n", "s", "!">>
FIX11 == <<"F", "I", "X", " ", "L", "O", "G", "I", "N", "S", "!">>
Fix12 == <<"F", "i", "x", " ", "l", "o", "g", "i", "n", "s", "!", "!">>

\* the bullets found in the issue body, stripped (lines 38-40, 46-48)
Candidates == {Fix9, Fix10, Fix11, FIX11, Fix12}

ExtractInputs ==
    [function : {"extract_acceptance_criteria"},
     criteria : SeqsUpTo(Candidates, MaxCandidates),
     result : {<<>>},
     done : {FALSE}]

\* a filter that keeps the items of 10 characters too
LongEnoughFrom10(c) == Len(c) >= TooShort

\* line 51: len(c) > 10
LongEnough(c) == Len(c) > TooShort

\* lines 52-57: the first item of each lower-case form, in order
RECURSIVE Unique(_, _)
Unique(criteria, seen) ==
    IF criteria = <<>> THEN <<>>
    ELSE IF LowerItem(Head(criteria)) \in seen
         THEN Unique(Tail(criteria), seen)
         ELSE <<Head(criteria)>>
              \o Unique(Tail(criteria), seen \cup {LowerItem(Head(criteria))})

\* lines 50-59
CleanUpAndDeduplicate(criteria) ==
    Unique(SelectSeq(criteria, LongEnough), {})

InitExtract ==
    /\ Constructed
    /\ computed \in ExtractInputs

ExtractCalled ==
    /\ computed.function = "extract_acceptance_criteria"
    /\ ~computed.done
    /\ computed' = [computed EXCEPT !.result = CleanUpAndDeduplicate(computed.criteria),
                                    !.done = TRUE]
    /\ UNCHANGED <<pipeline_vars, webhook_vars, in_flight, token_vars, handled, sessions>>

NextExtract == ExtractCalled

SpecExtract == InitExtract /\ [][NextExtract]_vars

\* ------------------------- parser.py: the extraction from an issue body
\* An issue body is the bullets it holds, and whether they stand in a section
\* headed "Acceptance Criteria", "AC" or "Requirements" (lines 27-31).
WeMustFix == <<"W", "e", " ", "m", "u", "s", "t", " ", "f", "i", "x">>
MustFixAll == <<"M", "u", "s", "t", " ", "f", "i", "x", " ", "a", "l", "l">>

BodyBullets == {Fix11, FIX11, Fix12, WeMustFix, MustFixAll}

IssueBodies == [section : BOOLEAN, bullets : SeqsUpTo(BodyBullets, MaxBullets)]

\* line 46: must|should|need|require|ensure|verify
RequirementKeywords ==
    {<<"m", "u", "s", "t">>, <<"s", "h", "o", "u", "l", "d">>, <<"n", "e", "e", "d">>,
     <<"r", "e", "q", "u", "i", "r", "e">>, <<"e", "n", "s", "u", "r", "e">>,
     <<"v", "e", "r", "i", "f", "y">>}

\* re.IGNORECASE on the characters of the bullets used here
FoldCase(c) == IF c = "M" THEN "m" ELSE IF c = "W" THEN "w" ELSE LowerChar(c)

\* line 46, `(.+?(?:must|...).+)`: a keyword, case aside, with a character
\* before it and a character after it
MatchesRequirement(bullet) ==
    \E kw \in RequirementKeywords :
        \E off \in 1..(Len(bullet) - Len(kw) - 1) :
            \A i \in 1..Len(kw) : FoldCase(bullet[off + i]) = kw[i]

\* lines 21-59: the bullets of the section when there is one with bullets
\* (lines 33-41), else the bullets with a requirement keyword (lines 44-48);
\* then the clean-up of lines 50-59
ExtractAcceptanceCriteria(issue_body) ==
    CleanUpAndDeduplicate(
        IF issue_body.section /\ issue_body.bullets # <<>>
        THEN issue_body.bullets
        ELSE SelectSeq(issue_body.bullets, MatchesRequirement))

\* a body that holds the items as bullet lines and nothing else
BulletLines(items) == [section |-> FALSE, bullets |-> items]

ReextractInputs ==
    [function : {"extract_acceptance_criteria, twice"},
     issue_body : IssueBodies,
     emitted : {<<>>},
     again : {<<>>},
     calls : {0}]

InitReextract ==
    /\ Constructed
    /\ computed \in ReextractInputs

\* the first extraction, from the issue body
ExtractFromBody ==
    /\ computed.function = "extract_acceptance_criteria, twice"
    /\ computed.calls = 0
    /\ computed' = [computed EXCEPT !.emitted = ExtractAcceptanceCriteria(computed.issue_body),
                                    !.calls = 1]
    /\ UNCHANGED <<pipeline_vars, webhook_vars, in_flight, token_vars, handled, sessions>>

\* the second, from the body written from what the first emitted
ExtractFromEmitted ==
    /\ computed.function = "extract_acceptance_criteria, twice"
    /\ computed.calls = 1
    /\ computed' = [computed EXCEPT
                       !.again = ExtractAcceptanceCriteria(BulletLines(computed.emitted)),
                       !.calls = 2]
    /\ UNCHANGED <<pipeline_vars, webhook_vars, in_flight, token_vars, handled, sessions>>

NextReextract == ExtractFromBody \/ ExtractFromEmitted

SpecReextract == InitReextract /\ [][NextReextract]_vars

\* ------------------------------ diff_utils.py: extract_changed_symbols
\* A line of a diff is what the patterns of the function see of it: a
\* "+++ b/<path>" header (lines 34-38), another "+++" line, a hunk header
\* with its start (lines 41-44), an added line with the patterns of lines
\* 49-50 and 71-73 that match it and the name they capture, or any other
\* line. The pattern of line 50 and the one of line 73 are the same
\* expression, so a line matches both or neither; no line matches two of the
\* others.
FileHeader(path) == [kind |-> "+++ b/", path |-> path, start |-> 0, matches |-> {}, name |-> None]
OtherHeader == [kind |-> "+++", path |-> None, start |-> 0, matches |-> {}, name |-> None]
HunkHeader(start) == [kind |-> "@@", path |-> None, start |-> start, matches |-> {}, name |-> None]
AddedLine(matches, name) ==
    [kind |-> "+", path |-> None, start |-> 0, matches |-> matches, name |-> name]
ContextLine == [kind |-> " ", path |-> None, start |-> 0, matches |-> {}, name |-> None]

DiffLines ==
    {FileHeader("app/mail.py"), FileHeader("web/app.js"), OtherHeader,
     HunkHeader(0), HunkHeader(10), ContextLine,
     AddedLine({}, None),
     AddedLine({"func_match"}, "send"),
     AddedLine({"class_match", "js_class_match"}, "Mailer"),
     AddedLine({"js_func_match"}, "go"),
     AddedLine({"js_arrow_match"}, "run")}

SymbolChange(name, type, file_path, line_number) ==
    [name |-> name, type |-> type, file_path |-> file_path, line_number |-> line_number]

\* lines 54, 62, 76, 84, 92: current_hunk_start + i if current_hunk_start
\* else None (0 stands for None; i counts the lines from 0)
LineNum(current_hunk_start, i) ==
    IF current_hunk_start # 0 THEN current_hunk_start + i ELSE 0

\* lines 53-68: the if/elif over the Python patterns
PythonSymbols(line, current_file, line_num) ==
    IF "func_match" \in line.matches
    THEN <<SymbolChange(line.name, "function", current_file, line_num)>>
    ELSE IF "class_match" \in line.matches
    THEN <<SymbolChange(line.name, "class", current_file, line_num)>>
    ELSE <<>>

\* lines 75-98: the if/elif/elif over the JavaScript patterns, a statement
\* of its own after the one of lines 53-68
JsSymbols(line, current_file, line_num) ==
    IF "js_func_match" \in line.matches
    THEN <<SymbolChange(line.name, "function", current_file, line_num)>>
    ELSE IF "js_arrow_match" \in line.matches
    THEN <<SymbolChange(line.name, "function", current_file, line_num)>>
    ELSE IF "js_class_match" \in line.matches
    THEN <<SymbolChange(line.name, "class", current_file, line_num)>>
    ELSE <<>>

\* lines 32-98: the loop, from line i on, with the file and the hunk start
\* the lines before it set
RECURSIVE ExtractLoop(_, _, _, _)
ExtractLoop(lines, i, current_file, current_hunk_start) ==
    IF i >= Len(lines) THEN <<>>
    ELSE LET line == lines[i + 1]
         IN IF line.kind = "+++ b/"
            THEN ExtractLoop(lines, i + 1, line.path, 0)
            ELSE IF line.kind = "+++"
            THEN ExtractLoop(lines, i + 1, current_file, current_hunk_start)
            ELSE IF line.kind = "@@"
            THEN ExtractLoop(lines, i + 1, current_file, line.start)
            ELSE IF line.kind = "+" /\ current_file # None
            THEN PythonSymbols(line, current_file, LineNum(current_hunk_start, i))
                 \o JsSymbols(line, current_file, LineNum(current_hunk_start, i))
                 \o ExtractLoop(lines, i + 1, current_file, current_hunk_start)
            ELSE ExtractLoop(lines, i + 1, current_file, current_hunk_start)

ExtractChangedSymbols(lines) == ExtractLoop(lines, 0, None, 0)

DiffInputsOfLines ==
    [function : {"extract_changed_symbols"},
     lines : SeqsUpTo(DiffLines, MaxDiffLines),
     result : {<<>>},
     done : {FALSE}]

InitDiff ==
    /\ Constructed
    /\ computed \in DiffInputsOfLines

ExtractSymbolsCalled ==
    /\ computed.function = "extract_changed_symbols"
    /\ ~computed.done
    /\ computed' = [computed EXCEPT !.result = ExtractChangedSymbols(computed.lines),
                                    !.done = TRUE]
    /\ UNCHANGED <<pipeline_vars, webhook_vars, in_flight, token_vars, handled, sessions>>

NextDiff == ExtractSymbolsCalled

SpecDiff == InitDiff /\ [][NextDiff]_vars

\* --------------------------------------- junit_parser.py: parse_junit
\* A report is well formed or not; a well-formed one is the testcase
\* elements found in its suites, each with its child elements in document
\* order.
FailureElem == [tag |-> "failure", text |-> "assert 1 == 2", type |-> "AssertionError"]
ErrorElem == [tag |-> "error", text |-> "boom", type |-> "RuntimeError"]
SkippedElem == [tag |-> "skipped", text |-> None, type |-> None]
SystemOutElem == [tag |-> "system-out", text |-> "log", type |-> None]

ChildLists ==
    {<<>>, <<SystemOutElem>>, <<FailureElem>>, <<ErrorElem>>, <<SkippedElem>>,
     <<FailureElem, SkippedElem>>, <<SkippedElem, FailureElem>>,
     <<FailureElem, ErrorElem>>, <<ErrorElem, FailureElem>>,
     <<ErrorElem, SkippedElem>>, <<SkippedElem, ErrorElem>>,
     <<SkippedElem, ErrorElem, FailureElem>>}

Testcases == [name : {<<"test", "validate", "email", "autoqa">>}, children : ChildLists]

JunitReports ==
    [well_formed : {TRUE}, testcases : SeqsUpTo(Testcases, MaxCases)]
    \cup {[well_formed |-> FALSE, testcases |-> <<>>]}

\* testcase.find(tag): the first child with the tag, 0 when there is none
Find(testcase, tag) ==
    LET hits == {c \in 1..Len(testcase.children) : testcase.children[c].tag = tag}
    IN IF hits = {} THEN 0 ELSE CHOOSE c \in hits : \A d \in hits : c <= d

\* a reading that looks for skipped first
OutcomeSkippedFirst(testcase) ==
    LET failure == Find(testcase, "failure")
        error == Find(testcase, "error")
        skipped == Find(testcase, "skipped")
    IN IF skipped # 0
       THEN [status |-> "skipped", failure_message |-> None, failure_type |-> None]
       ELSE IF failure # 0
       THEN [status |-> "failed",
             failure_message |-> testcase.children[failure].text,
             failure_type |-> testcase.children[failure].type]
       ELSE IF error # 0
       THEN [status |-> "error",
             failure_message |-> testcase.children[error].text,
             failure_type |-> testcase.children[error].type]
       ELSE [status |-> "passed", failure_message |-> None, failure_type |-> None]

\* lines 55-77: the status of a testcase, and the message and type taken
\* from the child that decided it
Outcome(testcase) ==
    LET failure == Find(testcase, "failure")
        error == Find(testcase, "error")
        skipped == Find(testcase, "skipped")
    IN IF failure # 0
       THEN [status |-> "failed",
             failure_message |-> testcase.children[failure].text,
             failure_type |-> testcase.children[failure].type]
       ELSE IF error # 0
       THEN [status |-> "error",
             failure_message |-> testcase.children[error].text,
             failure_type |-> testcase.children[error].type]
       ELSE IF skipped # 0
       THEN [status |-> "skipped", failure_message |-> None, failure_type |-> None]
       ELSE [status |-> "passed", failure_message |-> None, failure_type |-> None]

\* lines 30-97: ValueError for a report that does not parse, else one result
\* for each testcase, in order
ParseJunit(report) ==
    IF ~report.well_formed THEN Raise
    ELSE Ok([k \in 1..Len(report.testcases) |->
               LET outcome == Outcome(report.testcases[k])
               IN [name |-> report.testcases[k].name,
                   status |-> outcome.status,
                   failure_message |-> outcome.failure_message,
                   failure_type |-> outcome.failure_type]])

JunitInputs ==
    [function : {"parse_junit"}, xml : JunitReports, result : {Raise}, done : {FALSE}]

InitJunit ==
    /\ Constructed
    /\ computed \in JunitInputs

ParseJunitCalled ==
    /\ computed.function = "parse_junit"
    /\ ~computed.done
    /\ computed' = [computed EXCEPT !.result = ParseJunit(computed.xml), !.done = TRUE]
    /\ UNCHANGED <<pipeline_vars, webhook_vars, in_flight, token_vars, handled, sessions>>

NextJunit == ParseJunitCalled

SpecJunit == InitJunit /\ [][NextJunit]_vars

\* ------------------------------------------------------------------------
\* the background tasks beside each other (webhooks.py, lines 107-151): each
\* task opens a database session of its own and gives way at every await, so
\* the lookup of a handler and its save are two steps, and the steps of
\* another task may come between them. The tables carry no unique constraint
\* on (repo, issue_number) or (repo, pr_number)
\* (alembic/versions/001_initial_schema.py, lines 34 and 52: unique=False).
\* the LLM answers and the fetches a session is given
SessionFetches == {Raise} \cup {Ok(diff) : diff \in DiffInputs}

\* db_adapter.py, lines 23-34 and 43-52: scalar_one_or_none() returns the
\* row, None when there is none, and raises when the key has several rows
IssuesOfKey(repo, issue_number) ==
    {i \in 1..Len(issues) :
        issues[i].repo = repo /\ issues[i].issue_number = issue_number}

PrsOfKey(repo, pr_number) ==
    {i \in 1..Len(pull_requests) :
        pull_requests[i].repo = repo /\ pull_requests[i].pr_number = pr_number}

ScalarOneOrNone(hits) ==
    IF hits = {} THEN Ok(0)
    ELSE IF Cardinality(hits) = 1 THEN Ok(CHOOSE i \in hits : TRUE)
    ELSE Raise

\* the rows the sessions may still add are bounded
RoomForRows == Len(issues) + Len(pull_requests) < MaxRows

\* checklist_service.py, lines 41-62: handle_issue_event up to the answer of
\* its lookup
IssueLookup(s, event, provider, llm_reply) ==
    /\ sessions[s].phase = "idle"
    /\ RoomForRows
    /\ ~MissingIssueFields(event)
    /\ LET llm_checklist == LlmChecklist(provider, llm_reply)
           checklist == NormalizeChecklist(event.criteria, llm_checklist)
           existing_issue == ScalarOneOrNone(IssuesOfKey(event.repo, event.issue_number))
       IN sessions' = [sessions EXCEPT ![s] =
            IF existing_issue.kind = "raise"
            THEN [NoSession EXCEPT !.error = "MultipleResultsFound"]
            ELSE [NoSession EXCEPT !.phase = "issue looked up",
                                   !.event = event,
                                   !.checklist_items = checklist,
                                   !.existing = existing_issue.value]]
    /\ UNCHANGED <<pipeline_vars, webhook_vars, in_flight, token_vars, handled, computed>>

\* checklist_service.py, lines 64-77: the row found is updated, or a row is
\* created, and save_issue commits (db_adapter.py, lines 16-21)
IssueSave(s) ==
    /\ sessions[s].phase = "issue looked up"
    /\ LET session == sessions[s]
           event == session.event
       IN issues' = IF session.existing # 0
                    THEN [issues EXCEPT ![session.existing].checklist = session.checklist_items,
                                        ![session.existing].status = event.state]
                    ELSE Append(issues, [repo |-> event.repo,
                                         issue_number |-> event.issue_number,
                                         checklist |-> session.checklist_items,
                                         status |-> event.state])
    /\ sessions' = [sessions EXCEPT ![s] = NoSession]
    /\ UNCHANGED <<auto_merge_enabled, pull_requests, test_results, reports, last_run, gate>>
    /\ UNCHANGED <<webhook_vars, in_flight, token_vars, handled, computed>>

\* testgen_service.py, lines 44-88: handle_pr_event up to the fetch of the
\* diff, the lookup of the linked issue included
PrLinkedIssueLookup(s, event, fetch) ==
    /\ sessions[s].phase = "idle"
    /\ RoomForRows
    /\ ~MissingPrFields(event)
    /\ event.action \in {"opened", "synchronize"}
    /\ LET issue_record == IF event.linked_issue = 0 THEN Ok(0)
                           ELSE ScalarOneOrNone(IssuesOfKey(event.repo, event.linked_issue))
       IN sessions' = [sessions EXCEPT ![s] =
            IF issue_record.kind = "raise"
            THEN [NoSession EXCEPT !.error = "MultipleResultsFound"]
            ELSE [NoSession EXCEPT
                    !.phase = "diff fetched",
                    !.event = event,
                    !.fetch = fetch,
                    !.issue_row = issue_record.value,
                    !.checklist_items = IF issue_record.value = 0 THEN <<>>
                                        ELSE issues[issue_record.value].checklist]]
    /\ UNCHANGED <<pipeline_vars, webhook_vars, in_flight, token_vars, handled, computed>>

\* testgen_service.py, lines 91-102: the manifest is generated and the row of
\* the pull request looked up
PrLookup(s) ==
    /\ sessions[s].phase = "diff fetched"
    /\ LET event == sessions[s].event
           existing_pr == ScalarOneOrNone(PrsOfKey(event.repo, event.pr_number))
       IN sessions' = [sessions EXCEPT ![s] =
            IF existing_pr.kind = "raise"
            THEN [NoSession EXCEPT !.error = "MultipleResultsFound"]
            ELSE [@ EXCEPT !.phase = "pr looked up", !.existing = existing_pr.value]]
    /\ UNCHANGED <<pipeline_vars, webhook_vars, in_flight, token_vars, handled, computed>>

\* testgen_service.py, lines 104-119: the row found is updated, or a row is
\* created, and save_pr commits (db_adapter.py, lines 36-41)
PrSave(s) ==
    /\ sessions[s].phase = "pr looked up"
    /\ LET session == sessions[s]
           event == session.event
           diff == FetchedDiff(session.fetch)
           manifest == GenerateTestManifest(event.pr_number, event.head_sha,
                                            diff.symbols, diff.files,
                                            session.checklist_items)
       IN pull_requests' =
            IF session.existing # 0
            THEN [pull_requests EXCEPT ![session.existing] =
                     PrRowAfterSync(pull_requests[session.existing], event.head_sha,
                                    session.issue_row, manifest)]
            ELSE Append(pull_requests, [repo |-> event.repo,
                                        pr_number |-> event.pr_number,
                                        issue_id |-> session.issue_row,
                                        head_sha |-> event.head_sha,
                                        test_manifest |-> manifest,
                                        validation_status |-> "pending"])
    /\ sessions' = [sessions EXCEPT ![s] = NoSession]
    /\ UNCHANGED <<auto_merge_enabled, issues, test_results, reports, last_run, gate>>
    /\ UNCHANGED <<webhook_vars, in_flight, token_vars, handled, computed>>

IssueLookupRuns ==
    \E s \in 1..MaxSessions, event \in IssueEvents, llm_reply \in LlmReplies :
        IssueLookup(s, event, "groq", llm_reply)

IssueSaveRuns == \E s \in 1..MaxSessions : IssueSave(s)

PrLinkedIssueLookupRuns ==
    \E s \in 1..MaxSessions, event \in PrEvents, fetch \in SessionFetches :
        PrLinkedIssueLookup(s, event, fetch)

PrLookupRuns == \E s \in 1..MaxSessions : PrLookup(s)

PrSaveRuns == \E s \in 1..MaxSessions : PrSave(s)

NextSessions ==
    IssueLookupRuns \/ IssueSaveRuns \/ PrLinkedIssueLookupRuns \/ PrLookupRuns \/ PrSaveRuns

SpecSessions == Init /\ [][NextSessions]_vars

\* the webhook endpoint on its own: requests arrive one after the other; what
\* the scheduled tasks do to the tables is the subject of Spec
Webhook ==
    /\ \E req \in Requests : GithubWebhook(req)
    /\ UNCHANGED <<pipeline_vars, in_flight, token_vars, handled, computed, sessions>>

NextHook == Webhook

SpecHook == Init /\ [][NextHook]_vars

\* the webhook endpoint under concurrent requests. github_webhook is a
\* coroutine of one event loop: it gives way at `await request.body()` (line
\* 53), the only await it has, and runs from there to its end in one piece.
\* (a call that starts takes the place of one that is over, which no call
\* counts among its peers any longer)
ReceiveRequest(call, req) ==
    /\ in_flight[call].phase # "reading"
    /\ in_flight' = [other \in DOMAIN in_flight |->
                        IF other = call
                        THEN [phase |-> "reading", req |-> req,
                              response |-> NoResponse, peers |-> {}]
                        ELSE [in_flight[other] EXCEPT !.peers = @ \ {call}]]
    /\ UNCHANGED <<pipeline_vars, webhook_vars, token_vars, handled, computed, sessions>>

ResumeRequest(call) ==
    /\ in_flight[call].phase = "reading"
    /\ GithubWebhook(in_flight[call].req)
    /\ in_flight' = [in_flight EXCEPT ![call] =
                        [phase |-> "done", req |-> in_flight[call].req,
                         response |-> response',
                         peers |-> {other \in DOMAIN in_flight :
                                       /\ other # call
                                       /\ in_flight[other].phase = "reading"}]]
    /\ UNCHANGED <<pipeline_vars, token_vars, handled, computed, sessions>>

Receive == \E call \in DOMAIN in_flight, req \in ConcurrentRequests : ReceiveRequest(call, req)

Resume == \E call \in DOMAIN in_flight : ResumeRequest(call)

NextConcurrent == Receive \/ Resume

SpecConcurrent == Init /\ [][NextConcurrent]_vars

\* ------------------------------------------------------ github_service.py
\* line 35 refreshes a token that expires within timedelta(minutes=5): one
\* step of the clock
EarlyRefresh == 1

\* how long after the exchange the tokens of the provider expire, in steps of
\* the clock: a token that is due for refresh at once, and one that lasts
Lifetimes == {1, 2}

\* what the provider answers to the POST of line 50: a token with the text of
\* its expiry, which ends in Z ("2016-07-11T22:14:10Z") or carries no zone, or
\* an answer that makes post or raise_for_status raise an httpx.HTTPError
ProviderAnswers(utcnow) ==
    {[kind |-> "ok", expires_at |-> [at |-> utcnow + life, zone |-> zone]] :
        life \in Lifetimes, zone \in {"Z", ""}}
    \cup {[kind |-> "http_error", expires_at |-> NoExpiry]}

\* security.py generate_jwt_for_app: jwt.encode signs with
\* settings.github_private_key and raises when it cannot load the key
GenerateJwtForApp(key_loads) == IF key_loads THEN Ok("jwt") ELSE Raise

\* line 33: installation_id in self._token_cache
InTokenCache(cache, installation_id) == cache[installation_id].token # 0

\* line 35: expires_at > datetime.utcnow() + timedelta(minutes=5). utcnow() is
\* naive, and Python raises TypeError when it orders an aware datetime and a
\* naive one
ExpiresLater(entry, utcnow) ==
    IF entry.aware THEN Raise ELSE Ok(entry.at > utcnow + EarlyRefresh)

\* lines 58-60: datetime.fromisoformat(expires_at_str.replace('Z', '+00:00')) is
\* aware when the text ends in Z; the branch of line 59 changes nothing
ParseExpiresAt(expires_at_str) ==
    [at |-> expires_at_str.at, aware |-> expires_at_str.zone = "Z"]

StoreTokenKeepingPrevious(cache, installation_id, token, expires_at) ==
    IF InTokenCache(cache, installation_id) THEN cache
    ELSE [cache EXCEPT ![installation_id] =
             [token |-> token, at |-> expires_at.at, aware |-> expires_at.aware]]

\* line 63: self._token_cache[installation_id] = (token, expires_at)
StoreToken(cache, installation_id, token, expires_at) ==
    [cache EXCEPT ![installation_id] =
        [token |-> token, at |-> expires_at.at, aware |-> expires_at.aware]]

AfterExchangeForgetting(cache, installation_id, answer, token) ==
    IF answer.kind = "http_error"
    THEN [cache |-> [cache EXCEPT ![installation_id] = NoEntry],
          outcome |-> TokenRaised("GitHubAPIError")]
    ELSE [cache |-> StoreToken(cache, installation_id, token,
                               ParseExpiresAt(answer.expires_at)),
          outcome |-> TokenReturned(token)]

\* lines 50-68, from the provider's answer on: the cache the call leaves and
\* how it ends
AfterExchange(cache, installation_id, answer, token) ==
    IF answer.kind = "http_error"
    THEN [cache |-> cache, outcome |-> TokenRaised("GitHubAPIError")]
    ELSE [cache |-> StoreToken(cache, installation_id, token,
                               ParseExpiresAt(answer.expires_at)),
          outcome |-> TokenReturned(token)]

\* webhooks.py lines 107-151: a scheduled handler starts and constructs its
\* own GitHubService (lines 113, 129, 144)
StartHandler(h) ==
    /\ handlers[h].phase = "none"
    /\ handlers' = [handlers EXCEPT ![h] = [NoHandler EXCEPT !.phase = "ready"]]
    /\ token_call' = NoTokenCall
    /\ UNCHANGED <<now, token_posts, obtained>>

\* get_installation_token from its start to its first return, raise or await
\* (lines 33-50). The services of one handler await their calls one after the
\* other, so a GitHubService has one call at a time.
GetInstallationToken(h, installation_id, key_loads) ==
    /\ handlers[h].phase = "ready"
    /\ LET cache == handlers[h].token_cache
           fresh == IF InTokenCache(cache, installation_id)
                    THEN ExpiresLater(cache[installation_id], now)
                    ELSE Ok(FALSE)
           call(outcome, posted) ==
               [step |-> "call", handler |-> h, installation_id |-> installation_id,
                time |-> now, before |-> cache, after |-> cache,
                answer |-> NoAnswer, outcome |-> outcome, posted |-> posted]
       IN IF fresh.kind = "raise"
          THEN /\ token_call' = call(TokenRaised("TypeError"), FALSE)
               /\ UNCHANGED <<handlers, token_posts>>
          ELSE IF fresh.value
          THEN /\ token_call' = call(TokenReturned(cache[installation_id].token), FALSE)
               /\ UNCHANGED <<handlers, token_posts>>
          ELSE IF GenerateJwtForApp(key_loads).kind = "raise"
          THEN /\ token_call' = call(TokenRaised("InvalidKeyError"), FALSE)
               /\ UNCHANGED <<handlers, token_posts>>
          ELSE /\ token_posts < MaxExchanges
               /\ token_posts' = token_posts + 1
               /\ handlers' = [handlers EXCEPT ![h] =
                                  [phase |-> "exchanging",
                                   installation_id |-> installation_id,
                                   post |-> token_posts + 1,
                                   token_cache |-> cache]]
               /\ token_call' = call(TokenAwaited, TRUE)
    /\ UNCHANGED <<now, obtained>>

\* get_installation_token from the provider's answer to its end (lines 50-68);
\* the token of the exchange is its number
ExchangeAnswered(h, answer) ==
    /\ handlers[h].phase = "exchanging"
    /\ LET cache == handlers[h].token_cache
           installation_id == handlers[h].installation_id
           end == AfterExchange(cache, installation_id, answer, handlers[h].post)
       IN /\ handlers' = [handlers EXCEPT ![h] =
                             [NoHandler EXCEPT !.phase = "ready",
                                               !.token_cache = end.cache]]
          /\ token_call' = [step |-> "answer", handler |-> h,
                            installation_id |-> installation_id, time |-> now,
                            before |-> cache, after |-> end.cache,
                            answer |-> answer, outcome |-> end.outcome,
                            posted |-> TRUE]
          /\ obtained' = IF /\ end.outcome.kind = "return"
                            /\ answer.expires_at.at > obtained[installation_id].at
                         THEN [obtained EXCEPT ![installation_id] =
                                  [at |-> answer.expires_at.at, by |-> h]]
                         ELSE obtained
    /\ UNCHANGED <<now, token_posts>>

\* the handler returns, and its GitHubService goes with it
FinishHandler(h) ==
    /\ handlers[h].phase = "ready"
    /\ handlers' = [handlers EXCEPT ![h] = [NoHandler EXCEPT !.phase = "gone"]]
    /\ token_call' = NoTokenCall
    /\ UNCHANGED <<now, token_posts, obtained>>

Start ==
    /\ \E h \in DOMAIN handlers : StartHandler(h)
    /\ UNCHANGED <<pipeline_vars, webhook_vars, in_flight, handled, computed, sessions>>

Call ==
    /\ \E h \in DOMAIN handlers, installation_id \in Installations, key_loads \in BOOLEAN :
          GetInstallationToken(h, installation_id, key_loads)
    /\ UNCHANGED <<pipeline_vars, webhook_vars, in_flight, handled, computed, sessions>>

Answer ==
    /\ \E h \in DOMAIN handlers : \E answer \in ProviderAnswers(now) :
          ExchangeAnswered(h, answer)
    /\ UNCHANGED <<pipeline_vars, webhook_vars, in_flight, handled, computed, sessions>>

Finish ==
    /\ \E h \in DOMAIN handlers : FinishHandler(h)
    /\ UNCHANGED <<pipeline_vars, webhook_vars, in_flight, handled, computed, sessions>>

\* five minutes pass
Tick ==
    /\ now < MaxClock
    /\ now' = now + 1
    /\ token_call' = NoTokenCall
    /\ UNCHANGED <<pipeline_vars, webhook_vars, in_flight, handled, computed, sessions,
                   handlers, token_posts, obtained>>

NextToken == Start \/ Call \/ Answer \/ Finish \/ Tick

SpecToken == Init /\ [][NextToken]_vars


\* ------------------------------------------------------------ merge gate
Returned == last_run.outcome = "returned"

RunAttemptedMerge == Returned /\ last_run.merge_attempted

ProviderRefuses(mr) == mr.kind = "raise" \/ (mr.kind = "ok" /\ ~mr.merged)

\* C1: the gate ends in Merged only if auto-merge is enabled, the verdict has
\* required_passed = required_total with required_total > 0, and the provider's
\* merge call reported success.
C1_MergedOnlyIf ==
    /\ (RunAttemptedMerge /\ last_run.merge.result.success)
        => /\ auto_merge_enabled
           /\ last_run.compliance.required_passed = last_run.compliance.required_total
           /\ last_run.compliance.required_total > 0
           /\ last_run.merge.reply.kind = "ok" /\ last_run.merge.reply.merged
    /\ (gate.invoked /\ gate.attempt.result.success)
        => /\ auto_merge_enabled
           /\ gate.attempt.reply.kind = "ok" /\ gate.attempt.reply.merged

\* the gate was run for a verdict without any required item, the provider was
\* ready to merge, and the pull request was not merged
C1_Witness ==
    /\ RunAttemptedMerge
    /\ auto_merge_enabled
    /\ last_run.compliance.required_total = 0
    /\ last_run.provider_merge.kind = "ok" /\ last_run.provider_merge.merged
    /\ GateState(last_run.merge.result) # "Merged"

\* C2: handle_workflow_run calls attempt_merge only if auto-merge is enabled
\* and all required items pass with required_total > 0; with no required item
\* no merge attempt is made.
C2_AttemptOnlyWhenCompliant ==
    RunAttemptedMerge
        => /\ auto_merge_enabled
           /\ last_run.compliance.required_total > 0
           /\ last_run.compliance.required_passed = last_run.compliance.required_total

\* C3: with auto-merge disabled the gate yields Skipped with the message
\* "Auto-merge is disabled" and calls neither the branch-protection lookup nor
\* the merge endpoint, for every pull request and verdict.
C3_DisabledMeansSkipped ==
    ~auto_merge_enabled
        => /\ gate.invoked
               => /\ GateState(gate.attempt.result) = "Skipped"
                  /\ gate.attempt.result.message = <<"Auto-merge is disabled">>
                  /\ gate.attempt.calls = {}
           /\ RunAttemptedMerge
               => /\ GateState(last_run.merge.result) = "Skipped"
                  /\ last_run.merge.result.message = <<"Auto-merge is disabled">>
                  /\ last_run.merge.calls = {}

\* auto-merge is off and the gate was asked about a pull request whose latest
\* verdict is fully compliant
C3_Witness ==
    /\ ~auto_merge_enabled
    /\ gate.invoked
    /\ Returned
    /\ last_run.ret.pr_id = gate.pr_id
    /\ last_run.compliance.required_total > 0
    /\ last_run.compliance.required_passed = last_run.compliance.required_total

\* the provider's own words about a refused merge
ProviderMessage(mr) == <<mr.message>>

\* C4: when the provider refuses the merge (the merge call raises, or answers
\* merged = false) the gate ends in Blocked, never Merged, with the provider's
\* message kept verbatim.
C4_ProviderFailureBlocks ==
    (RunAttemptedMerge /\ auto_merge_enabled /\ ProviderRefuses(last_run.provider_merge))
        => /\ GateState(last_run.merge.result) = "Blocked"
           /\ last_run.merge.result.message = ProviderMessage(last_run.provider_merge)

\* what the caller of handle_workflow_run learns about the merge attempt
MergeOutcomeIn(ret) == IF "merge" \in DOMAIN ret THEN ret.merge ELSE NoAttempt

\* C5: a merge attempt of handle_workflow_run that does not end in Merged is
\* part of what handle_workflow_run returns (or raises) to its caller.
C5_MergeOutcomeSurfaced ==
    (RunAttemptedMerge /\ ~last_run.merge.result.success)
        => MergeOutcomeIn(last_run.ret) = last_run.merge.result

\* ---------------------------------------------------------------- verdict
\* a step of handle_workflow_run that computed a verdict: it saved a report
VerdictStep == Len(reports') = Len(reports) + 1

\* the rows that step saved, and the checklist it read (the step leaves the
\* issues and pull_requests tables alone)
RowsOfStep == SubSeq(test_results', Len(test_results) + 1, Len(test_results'))

ChecklistOfStep == ChecklistOfPr(pull_requests[last_run'.ret.pr_id])

RequiredItems(checklist) == {i \in 1..Len(checklist) : checklist[i].required}

\* the item is among the linked ids of a passed result
CoveredByPassed(item, rows) ==
    \E k \in 1..Len(rows) :
        rows[k].status = "passed" /\ item.id \in Range(rows[k].checklist_ids)

\* C6: every verdict has 0.0 <= score <= 1.0, that is 0 <= required_passed <=
\* required_total whenever required_total > 0.
C6_ScoreBounds ==
    Returned
        => /\ 0 <= last_run.compliance.score.num
           /\ last_run.compliance.score.num <= last_run.compliance.score.den
           /\ last_run.compliance.required_total > 0
               => /\ 0 <= last_run.compliance.required_passed
                  /\ last_run.compliance.required_passed <= last_run.compliance.required_total

\* C7: for a checklist with a required item, score = 1.0 exactly when every
\* required item is linked to at least one passed result.
C7_FullScoreIffAllCovered ==
    [][VerdictStep =>
        LET checklist == ChecklistOfStep
            verdict == last_run'.compliance
        IN RequiredItems(checklist) # {}
            => ((verdict.score.num = verdict.score.den)
                <=> \A i \in RequiredItems(checklist) :
                        CoveredByPassed(checklist[i], RowsOfStep))]_vars

\* C8: required_passed is the number of distinct required items linked to at
\* least one passed result.
C8_RequiredPassedCountsItems ==
    [][VerdictStep =>
        LET checklist == ChecklistOfStep
        IN last_run'.compliance.required_passed
            = Cardinality({i \in RequiredItems(checklist) :
                              CoveredByPassed(checklist[i], RowsOfStep)})]_vars

\* C9: with no required item in the checklist the score is 0.0, however many
\* tests pass.
C9_ZeroRequiredZeroScore ==
    (Returned /\ last_run.compliance.required_total = 0)
        => last_run.compliance.score.num = 0

\* a verdict over no required item for a run whose tests all passed
C9_Witness ==
    /\ Returned
    /\ last_run.compliance.required_total = 0
    /\ last_run.compliance.total_tests > 0
    /\ last_run.compliance.passed_tests = last_run.compliance.total_tests

\* ---------------------------------------------------------------- webhook
\* the request carries no signature header, or one that is not "sha256="
\* followed by the HMAC-SHA256 of its body under the webhook secret
BadSignature(req) ==
    \/ req.signature.scheme = None
    \/ req.signature.scheme # "sha256="
    \/ req.signature.digest # Hmac(WebhookSecret, req.body)

\* C10: a request whose signature header is missing or fails verification is
\* rejected (401, or 500 when comparing the digests raises) before its payload
\* is parsed and before the idempotency check: the processed-delivery cache
\* stays as it was and no handler is scheduled.
C10_BadSignatureRejectedFirst ==
    [][BadSignature(request')
        => /\ response'.status \in {401, 500}
           /\ processed_events' = processed_events
           /\ background_tasks' = background_tasks]_vars

\* a request without valid signature, with a body that is no JSON and a
\* delivery id not seen before, was answered 401 while the cache and the task
\* list held earlier deliveries
C10_Witness ==
    /\ request # NoRequest
    /\ BadSignature(request)
    /\ request.signature.scheme = "sha256="
    /\ request.body.kind = "text"
    /\ request.delivery # 0
    /\ request.delivery \notin processed_events
    /\ processed_events # {}
    /\ background_tasks # <<>>
    /\ response.status = 401

\* C11: verify_github_signature returns true exactly when the header is
\* "sha256=" followed by the hex HMAC-SHA256 of the body under the secret (so
\* false after any change of body or digest), and never raises.
C11_VerifyExactAndTotal ==
    signature_check.called
        => /\ signature_check.outcome.kind = "ok"
           /\ signature_check.outcome.value
               = (/\ signature_check.signature_header.scheme = "sha256="
                  /\ signature_check.signature_header.digest
                       = Hmac(signature_check.secret, signature_check.body))

\* -------------------------------------------------------- delivery cache
\* a delivery that gets as far as the idempotency check: rightly signed, a
\* body that is JSON, and a delivery id
ReachesDedup(req) ==
    /\ ~BadSignature(req)
    /\ req.body.kind # "text"
    /\ req.delivery # 0

\* C12: of two successive validly signed deliveries with the same id the
\* second is answered already_processed and schedules no handler, whatever
\* the cache held before the first, a full cache included.
C12_SecondDeliveryIsDuplicate ==
    [][(/\ ReachesDedup(request)
        /\ ReachesDedup(request')
        /\ request'.delivery = request.delivery)
        => /\ response'.detail = "already_processed"
           /\ background_tasks' = background_tasks]_vars

\* C13: an insertion into a full set evicts the earliest-inserted id: that id
\* is no duplicate any more, the ids inserted later and the new one still are.
C13_EvictionOldestFirst ==
    [][(/\ ReachesDedup(request')
        /\ request'.delivery \notin processed_events
        /\ Cardinality(processed_events) = MAX_CACHE_SIZE)
        => processed_events'
             = (processed_events \cup {request'.delivery}) \ {Head(cache_history.order)}]_vars

\* C14: the processed-delivery set never holds more than MAX_CACHE_SIZE ids.
C14_CacheBounded == Cardinality(processed_events) <= MAX_CACHE_SIZE

\* an insertion into the full set was just handled, and the set gave up an id
C14_Witness ==
    /\ ReachesDedup(request)
    /\ response.status = 200
    /\ cache_history.evicted # 0
    /\ Cardinality(processed_events) = MAX_CACHE_SIZE

\* the two calls were being handled at the same time
Overlap(a, b) == a \in in_flight[b].peers \/ b \in in_flight[a].peers

\* C15: two deliveries with the same id that are handled at the same time
\* never both miss the cache and both schedule a handler.
C15_ConcurrentSameIdOnce ==
    \A a, b \in DOMAIN in_flight :
        (/\ a # b
         /\ in_flight[a].phase = "done" /\ in_flight[b].phase = "done"
         /\ Overlap(a, b)
         /\ in_flight[a].req.delivery = in_flight[b].req.delivery)
        => ~(/\ in_flight[a].response.detail = "accepted"
             /\ in_flight[b].response.detail = "accepted")

\* ----------------------------------------------------------- token cache
\* the entry of the installation id is in the cache and expires more than
\* five minutes after utcnow
ValidEntry(cache, installation_id, utcnow) ==
    /\ InTokenCache(cache, installation_id)
    /\ cache[installation_id].at > utcnow + EarlyRefresh

\* C16: a call of get_installation_token that finds in the cache an entry of
\* its installation id that expires more than five minutes after now returns
\* the cached token and makes no token exchange.
C16_ValidEntryServedFromCache ==
    (/\ token_call.step = "call"
     /\ ValidEntry(token_call.before, token_call.installation_id, token_call.time))
    => /\ token_call.outcome =
              TokenReturned(token_call.before[token_call.installation_id].token)
       /\ ~token_call.posted

\* C17: once a handler has obtained a token of an installation id that is
\* still valid, a call of get_installation_token by another handler for the
\* same installation id returns a token without a new exchange.
C17_LaterHandlerServedFromCache ==
    [][\A installation_id \in Installations :
          (/\ token_call'.step = "call"
           /\ token_call'.installation_id = installation_id
           /\ token_call'.time = now
           /\ handlers[token_call'.handler].phase = "ready"
           /\ obtained[installation_id].by \notin {0, token_call'.handler}
           /\ obtained[installation_id].at > now + EarlyRefresh)
          => /\ token_call'.outcome.kind = "return"
             /\ token_posts' = token_posts]_vars

\* C18: a successful exchange stores the token and the expiry of that exchange
\* under its installation id, in the place of the entry the id had, and leaves
\* the entries of the other installation ids as they were.
C18_ExchangeStoresItsPair ==
    (token_call.step = "answer" /\ token_call.outcome.kind = "return")
    => /\ token_call.after[token_call.installation_id] =
              [token |-> token_call.outcome.token,
               at |-> token_call.answer.expires_at.at,
               aware |-> token_call.answer.expires_at.zone = "Z"]
       /\ \A other \in Installations \ {token_call.installation_id} :
              token_call.after[other] = token_call.before[other]
       /\ handlers[token_call.handler].phase = "ready"
              => handlers[token_call.handler].token_cache = token_call.after

\* a successful exchange for an installation id that had an entry, in a cache
\* that holds an entry of another installation id
C18_Witness ==
    /\ token_call.step = "answer"
    /\ token_call.outcome.kind = "return"
    /\ InTokenCache(token_call.before, token_call.installation_id)
    /\ token_call.before[token_call.installation_id].token # token_call.outcome.token
    /\ \E other \in Installations \ {token_call.installation_id} :
          InTokenCache(token_call.before, other)

\* the call failed to mint the app assertion, or its exchange failed
MintOrExchangeFailed ==
    \/ token_call.step = "call" /\ token_call.outcome.error = "InvalidKeyError"
    \/ token_call.step = "answer" /\ token_call.answer.kind = "http_error"

\* C19: when minting the app assertion or the exchange fails, the call raises
\* an error, returns no token, leaves the token cache as it was, and is over
\* (it makes no second exchange).
C19_FailureLeavesCache ==
    MintOrExchangeFailed
    => /\ token_call.outcome.kind = "raise"
       /\ token_call.outcome.token = 0
       /\ token_call.after = token_call.before
       /\ handlers[token_call.handler].phase = "ready"
              => handlers[token_call.handler].token_cache = token_call.before
       /\ token_call.step = "answer"
              => handlers[token_call.handler].phase # "exchanging"
       /\ token_call.step = "call" => ~token_call.posted

\* an exchange that failed for an installation id whose entry was in the cache
C19_Witness ==
    /\ token_call.step = "answer"
    /\ token_call.answer.kind = "http_error"
    /\ InTokenCache(token_call.before, token_call.installation_id)

\* the handlers that wait for the provider's answer to an exchange for the
\* installation id
Exchanging(installation_id) ==
    {h \in DOMAIN handlers : /\ handlers[h].phase = "exchanging"
                             /\ handlers[h].installation_id = installation_id}

\* C20: for each installation id at most one token exchange is in flight at a
\* time.
C20_OneExchangeInFlight ==
    \A installation_id \in Installations :
        Cardinality(Exchanging(installation_id)) <= 1

\* ------------------------------------------------------------- the tasks
\* a workflow_run event of a completed run that lacks no field
CompletedRun(event) == event.action = "completed" /\ ~MissingWorkflowFields(event)

\* C21: a workflow-completion event handled when no pull request is recorded
\* for its head SHA still ends with a verdict (a report is saved), computed
\* without manifest-derived mappings, instead of failing.
C21_RunBeforePrDegrades ==
    [][\A event \in TaskWorkflowEvents, listing \in TaskListings :
          (/\ handled'.handler = "workflow_run"
           /\ CompletedRun(event)
           /\ FindPrBySha(event.repo, event.head_sha) = 0
           /\ listing.kind = "ok"
           /\ WorkflowTask(event, listing))
          => /\ handled'.outcome = "returned"
             /\ Len(reports') = Len(reports) + 1
             /\ \A k \in (Len(test_results) + 1)..Len(test_results') :
                    test_results'[k].test_id = None]_vars

\* the pull request of the row has no linked issue record, and so no checklist
NoChecklist(pr_row) == pr_row.issue_id = 0

\* the manifest of the row holds no test
NoManifest(pr_row) == pr_row.test_manifest.tests = <<>>

\* C22: a workflow completion for a recorded pull request that has no
\* checklist or no manifest entries is handled without error: a verdict is
\* produced, required_total counts the required items of the checklist there
\* is (none without a checklist), and without manifest entries no saved result
\* carries a manifest test id: its checklist ids are those of the fuzzy match.
C22_GapStillYieldsVerdict ==
    [][\A event \in TaskWorkflowEvents, listing \in TaskListings :
          (/\ handled'.handler = "workflow_run"
           /\ CompletedRun(event)
           /\ FindPrBySha(event.repo, event.head_sha) # 0
           /\ listing.kind = "ok"
           /\ \/ NoChecklist(pull_requests[FindPrBySha(event.repo, event.head_sha)])
              \/ NoManifest(pull_requests[FindPrBySha(event.repo, event.head_sha)])
           /\ WorkflowTask(event, listing))
          => LET pr_row == pull_requests[FindPrBySha(event.repo, event.head_sha)]
                 verdict == last_run'.compliance
             IN /\ handled'.outcome = "returned"
                /\ last_run'.outcome = "returned"
                /\ Len(reports') = Len(reports) + 1
                /\ NoChecklist(pr_row)
                    => /\ verdict.required_total = 0
                       /\ verdict.required_passed = 0
                       /\ verdict.score.num = 0
                /\ ~NoChecklist(pr_row)
                    => verdict.required_total
                         = Cardinality(RequiredItems(issues[pr_row.issue_id].checklist))
                /\ NoManifest(pr_row)
                    => \A k \in (Len(test_results) + 1)..Len(test_results') :
                          /\ test_results'[k].test_id = None
                          /\ test_results'[k].checklist_ids
                               = FuzzyMatchChecklist(
                                   test_results'[k].name,
                                   IF NoChecklist(pr_row) THEN <<>>
                                   ELSE issues[pr_row.issue_id].checklist)]_vars

\* the task of a workflow completion just produced a verdict over test results
\* for a pull request without linked issue, while an issue with a required
\* item is recorded
C22_Witness ==
    /\ handled.handler = "workflow_run"
    /\ handled.outcome = "returned"
    /\ Returned
    /\ NoChecklist(pull_requests[last_run.ret.pr_id])
    /\ last_run.compliance.total_tests > 0
    /\ \E i \in 1..Len(issues) : RequiredItems(issues[i].checklist) # {}

\* the same for a pull request with a checklist that has a required item and a
\* manifest without tests
C22_WitnessNoManifest ==
    /\ handled.handler = "workflow_run"
    /\ Returned
    /\ ~NoChecklist(pull_requests[last_run.ret.pr_id])
    /\ NoManifest(pull_requests[last_run.ret.pr_id])
    /\ last_run.compliance.required_total > 0
    /\ last_run.compliance.total_tests > 0

\* the event lacks a field its handler requires
LacksField(event, numbers, texts) ==
    \/ \E f \in numbers : event[f] = 0
    \/ \E f \in texts : event[f] = None

IssueEventsLacking ==
    {event \in TaskIssueEvents :
        LacksField(event, {"issue_number", "installation_id"}, {"repo"})}

PrEventsLacking ==
    {event \in TaskPrEvents :
        LacksField(event, {"pr_number", "installation_id"}, {"head_sha", "repo"})}

\* (handle_workflow_run looks at the action first)
WorkflowEventsLacking ==
    {event \in TaskWorkflowEvents :
        /\ LacksField(event, {"run_id", "installation_id"}, {"head_sha", "repo"})
        /\ event.action = "completed"}

\* the step processed nothing: the tables are as they were, and the task made
\* no call and sent no comment
NothingProcessed ==
    /\ <<issues, pull_requests, test_results, reports>>'
         = <<issues, pull_requests, test_results, reports>>
    /\ handled'.calls = <<>>
    /\ ~handled'.comment.attempted

\* C23: an issues, pull_request or workflow_run event that lacks a required
\* field makes its handler raise the error of the missing fields, and nothing
\* is processed: no record is created or updated, no comment is posted and no
\* call goes to the provider.
C23_MissingFieldNoProcessing ==
    [][/\ handled'.handler = "issue" =>
            \A event \in IssueEventsLacking, llm \in LlmSettings :
                IssueTask(event, llm.provider, llm.llm_reply, TRUE)
                => /\ handled'.outcome = "raised"
                   /\ handled'.error = "Missing required fields in issue event"
                   /\ NothingProcessed
       /\ handled'.handler = "pr" =>
            \A event \in PrEventsLacking, fetch \in {Ok(d) : d \in DiffInputs} \cup {Raise} :
                PrTask(event, fetch)
                => /\ handled'.outcome = "raised"
                   /\ handled'.error = "Missing required fields in PR event"
                   /\ NothingProcessed
       /\ handled'.handler = "workflow_run" =>
            \A event \in WorkflowEventsLacking, listing \in TaskListings :
                WorkflowTask(event, listing)
                => /\ handled'.outcome = "raised"
                   /\ handled'.error = "Missing required fields in workflow_run event"
                   /\ NothingProcessed]_vars

\* the task of a pull_request event without installation id (or another
\* field) just failed, while an issue and a pull request are recorded
C23_Witness ==
    /\ handled.handler = "pr"
    /\ handled.outcome = "raised"
    /\ handled.error = "Missing required fields in PR event"
    /\ issues # <<>>
    /\ pull_requests # <<>>

\* the rows of a table that belong to a pull request
RowsOfPr(table, pr_id) == SelectSeq(table, LAMBDA row : row.pr_id = pr_id)

\* C24: once a workflow run of a pull request has been handled, the stored
\* test results and the stored report of that pull request are those of this
\* run alone: what earlier runs left for it is superseded, not kept beside.
C24_NewerRunSupersedes ==
    [][(handled'.handler = "workflow_run" /\ Len(reports') = Len(reports) + 1)
       => LET report == reports'[Len(reports')]
              saved == SubSeq(test_results', Len(test_results) + 1, Len(test_results'))
          IN /\ RowsOfPr(reports', report.pr_id) = <<report>>
             /\ RowsOfPr(test_results', report.pr_id) = saved]_vars

\* the processed synchronizations: pull_request events with every field and
\* the action opened or synchronize
Synchronizations ==
    {event \in TaskPrEvents :
        ~MissingPrFields(event) /\ event.action \in {"opened", "synchronize"}}

\* the manifest derived from an event: from the diff the provider gave (none,
\* when the fetch failed) and the checklist of the issue the event links
ManifestOfEvent(event, fetch) ==
    LET issue_row == IF event.linked_issue = 0 THEN 0
                     ELSE GetIssueByRepoAndNumber(event.repo, event.linked_issue)
        diff == IF fetch.kind = "raise" THEN [symbols |-> <<>>, files |-> <<>>]
                ELSE fetch.value
    IN GenerateTestManifest(event.pr_number, event.head_sha, diff.symbols, diff.files,
                            IF issue_row = 0 THEN <<>> ELSE issues[issue_row].checklist)

\* C25: a processed opened or synchronize event leaves the record of its pull
\* request with the head and the test manifest derived from that event, in
\* place of what was stored; no step that is not such an event (an issue
\* event, a workflow run, a pull_request event of another action or lacking a
\* field) changes a stored pull request.
C25_ManifestOwnedBySynchronization ==
    [][/\ handled'.handler = "pr" =>
            \A event \in Synchronizations, fetch \in {Ok(d) : d \in DiffInputs} \cup {Raise} :
                PrTask(event, fetch)
                => LET row == GetPrByRepoAndNumber(event.repo, event.pr_number)'
                   IN /\ row # 0
                      /\ Len(pull_requests') = IF GetPrByRepoAndNumber(event.repo, event.pr_number) # 0
                                               THEN Len(pull_requests)
                                               ELSE Len(pull_requests) + 1
                      /\ pull_requests'[row].head_sha = event.head_sha
                      /\ pull_requests'[row].test_manifest = ManifestOfEvent(event, fetch)
       /\ \/ pull_requests' = pull_requests
          \/ /\ handled'.handler = "pr"
             /\ \E event \in Synchronizations, fetch \in {Ok(d) : d \in DiffInputs} \cup {Raise} :
                    PrTask(event, fetch)]_vars

\* a synchronization has just replaced a manifest: a stored test result was
\* mapped through a test of the manifest, and the manifest now stored has no
\* test
C25_Witness ==
    /\ handled.handler = "pr"
    /\ handled.outcome = "returned"
    /\ Len(pull_requests) = 1
    /\ pull_requests[1].head_sha = "sha2"
    /\ pull_requests[1].test_manifest.tests = <<>>
    /\ \E k \in 1..Len(test_results) : test_results[k].test_id # None

\* the checklist built from the heuristic extraction of the event alone
HeuristicChecklist(event) == NormalizeChecklist(event.criteria, <<>>)

\* C26: when the language model fails, the issue handler goes on as with an
\* empty list of suggestions: it returns, stores the checklist built from the
\* heuristic extraction alone and comments that checklist, and the tables are
\* left as the handler leaves them with no language model configured.
C26_LlmFailureSwallowed ==
    [][handled'.handler = "issue" =>
          \A event \in TaskIssueEvents \ IssueEventsLacking :
              IssueTask(event, "groq", Raise, TRUE)
              => /\ handled'.outcome = "returned"
                 /\ HandleIssueEvent(event, "none", Ok(<<>>), TRUE)
                 /\ LET row == GetIssueByRepoAndNumber(event.repo, event.issue_number)'
                    IN row # 0 /\ issues'[row].checklist = HeuristicChecklist(event)
                 /\ handled'.comment =
                      [attempted |-> TRUE,
                       posted |-> TRUE,
                       body |-> FormatChecklistComment(HeuristicChecklist(event))]]_vars

\* the language model was asked, and the checklist stored and commented for
\* the issue is the heuristic one of two criteria
C26_Witness ==
    /\ handled.handler = "issue"
    /\ handled.outcome = "returned"
    /\ handled.calls = <<"parse_issue_to_checklist", "post_issue_comment">>
    /\ issues # <<>>
    /\ issues[1].checklist = NormalizeChecklist(<<TEmail, TLogin>>, <<>>)
    /\ Len(issues[1].checklist) = 2
    /\ handled.comment.body = FormatChecklistComment(issues[1].checklist)

\* the listings with a report artifact that does not parse
ListingsWithBrokenReport ==
    {listing \in TaskListings :
        listing.kind = "ok" /\ \E a \in 1..Len(listing.value) : listing.value[a] = BrokenReport}

\* C27: a workflow run with a malformed test report is not correlated: no
\* test result and no report is stored for it, no verdict is commented and no
\* merge is attempted; and no exception leaves the task of the event.
C27_MalformedReportAborts ==
    [][handled'.handler = "workflow_run" =>
          \A event \in TaskWorkflowEvents, listing \in ListingsWithBrokenReport :
              (/\ CompletedRun(event)
               /\ FindPrBySha(event.repo, event.head_sha) # 0
               /\ WorkflowTask(event, listing))
              => /\ reports' = reports
                 /\ test_results' = test_results
                 /\ ~handled'.comment.attempted
                 /\ "post_pr_comment" \notin Range(handled'.calls)
                 /\ ~handled'.escaped]_vars

\* the ids of a checklist are distinct
DistinctIds(items) ==
    \A i, j \in 1..Len(items) : i # j => items[i].id # items[j].id

\* the n of an id C{n}, 0 for an id of another form
SuffixOf(id) ==
    IF \E n \in 1..8 : CId(n) = id THEN CHOOSE n \in 1..8 : CId(n) = id ELSE 0

\* C28: in the checklist a merge returns all ids are distinct, whatever
\* items the language model supplied with distinct ids of their own and
\* whatever the heuristic texts; and the ids the merge assigns are C{n} with
\* n strictly increasing.
C28_IdsDistinct ==
    (computed.done /\ DistinctIds(computed.llm_checklist))
    => LET result == computed.result
           added == (Len(computed.llm_checklist) + 1)..Len(result)
       IN /\ DistinctIds(result)
          /\ \A k \in added : SuffixOf(result[k].id) # 0
          /\ \A k, l \in added : k < l => SuffixOf(result[k].id) < SuffixOf(result[l].id)

\* the half of C28 that holds: the ids the merge assigns are C{n}, n
\* strictly increasing
C28_AssignedIdsIncrease ==
    computed.done
    => LET result == computed.result
           added == (Len(computed.llm_checklist) + 1)..Len(result)
       IN /\ \A k \in added : SuffixOf(result[k].id) # 0
          /\ \A k, l \in added : k < l => SuffixOf(result[k].id) < SuffixOf(result[l].id)

\* a text is a substring of a description, or the description of the text,
\* case aside
Overlaps(text, description) ==
    \/ IsSubstring(LowerText(text), LowerText(description))
    \/ IsSubstring(LowerText(description), LowerText(text))

\* the descriptions of a merge that looks, for each heuristic text, at every
\* description included so far
RECURSIVE DescriptionsLookingAtAll(_, _)
DescriptionsLookingAtAll(included, texts) ==
    IF texts = <<>> THEN included
    ELSE IF \E d \in Range(included) : Overlaps(Head(texts), d)
         THEN DescriptionsLookingAtAll(included, Tail(texts))
         ELSE DescriptionsLookingAtAll(Append(included, Head(texts)), Tail(texts))

DescriptionsOf(items) == [i \in 1..Len(items) |-> items[i].description]

\* C29: the merge returns the items of the language model first, as they
\* are and in their order, and then a new item for each heuristic text that
\* is not a substring of, nor has as a substring, case aside, a description
\* included by then, those of the heuristic items before it among them.
C29_MergeLooksAtAllIncluded ==
    computed.done
    => /\ SubSeq(computed.result, 1, Len(computed.llm_checklist)) = computed.llm_checklist
       /\ DescriptionsOf(computed.result)
            = DescriptionsLookingAtAll(DescriptionsOf(computed.llm_checklist),
                                       computed.criteria_texts)

\* the half of C29 that holds: the items of the language model come first,
\* as they are
C29_LlmItemsFirst ==
    computed.done
    => SubSeq(computed.result, 1, Len(computed.llm_checklist)) = computed.llm_checklist

\* the post-processing as stated: items of 10 characters and more are kept
CleanUpFrom10(criteria) == Unique(SelectSeq(criteria, LongEnoughFrom10), {})

\* C30: the extraction drops the candidates of fewer than 10 characters, and
\* no other (one of exactly 10 is kept), then keeps the first item of every
\* class of items equal but for case, in the order they were first seen.
C30_DropsShorterThan10 ==
    computed.done => computed.result = CleanUpFrom10(computed.criteria)

\* C31: extracting again from a body that holds nothing but the items an
\* extraction emitted, written as bullet lines, gives the same set of items.
C31_ExtractionIdempotent ==
    computed.calls = 2 => Range(computed.again) = Range(computed.emitted)

\* the words a test name and the description of a checklist item share
TokenOverlap(test_name, item) ==
    Cardinality(TestWords(test_name) \cap ItemWords(item.description))

\* C32: the checklist ids saved with a test result are those of the manifest
\* entry of the result's name when there is such an entry and it carries ids;
\* without an entry of that name, or with one that carries no id, they are
\* the ids of the checklist items that share two words or more with the test
\* name, and of no other item.
C32_LinkedIdsAsStated ==
    [][(handled'.handler = "workflow_run" /\ Len(test_results') > Len(test_results))
       => \A k \in (Len(test_results) + 1)..Len(test_results') :
            LET row == test_results'[k]
                pr_row == pull_requests[row.pr_id]
                tests == pr_row.test_manifest.tests
                checklist == IF pr_row.issue_id = 0 THEN <<>>
                             ELSE issues[pr_row.issue_id].checklist
                named == {e \in 1..Len(tests) : tests[e].name = row.name}
                first == IF named = {} THEN 0
                         ELSE CHOOSE e \in named : \A f \in named : e <= f
                close == {i \in 1..Len(checklist) : TokenOverlap(row.name, checklist[i]) >= 2}
            IN IF first # 0 /\ tests[first].checklist # <<>>
               THEN row.checklist_ids = tests[first].checklist
               ELSE /\ Range(row.checklist_ids) = {checklist[i].id : i \in close}
                    /\ Len(row.checklist_ids) = Cardinality(close)]_vars

\* the checklist a stored test result was mapped on
ChecklistOfRow(row) ==
    IF pull_requests[row.pr_id].issue_id = 0 THEN <<>>
    ELSE issues[pull_requests[row.pr_id].issue_id].checklist

\* of two results without manifest entry, one was linked to an item by the
\* two words they share, the other was linked to nothing though it shares a
\* word with an item
C32_Witness ==
    /\ handled.handler = "workflow_run"
    /\ \E k, l \in 1..Len(test_results) :
         LET linked == test_results[k]
             loose == test_results[l]
         IN /\ linked.test_id = None
            /\ linked.checklist_ids # <<>>
            /\ loose.test_id = None
            /\ loose.checklist_ids = <<>>
            /\ \E i \in 1..Len(ChecklistOfRow(loose)) :
                 TokenOverlap(loose.name, ChecklistOfRow(loose)[i]) = 1

\* a result took the ids of its manifest entry
C32_WitnessEntry ==
    /\ handled.handler = "workflow_run"
    /\ \E k \in 1..Len(test_results) :
         test_results[k].test_id # None /\ test_results[k].checklist_ids # <<>>

\* the patterns in their order
PatternOrder == <<"func_match", "class_match", "js_func_match", "js_arrow_match",
                  "js_class_match">>

KindOfPattern(pattern) ==
    IF pattern \in {"class_match", "js_class_match"} THEN "class" ELSE "function"

\* the one symbol of an added line: of the first pattern that matches it
FirstMatchSymbol(line, current_file) ==
    LET hits == {p \in 1..Len(PatternOrder) : PatternOrder[p] \in line.matches}
    IN IF hits = {} THEN <<>>
       ELSE LET first == CHOOSE p \in hits : \A q \in hits : p <= q
            IN <<[name |-> line.name, type |-> KindOfPattern(PatternOrder[first]),
                  file_path |-> current_file]>>

RECURSIVE FirstMatchWins(_, _)
FirstMatchWins(lines, current_file) ==
    IF lines = <<>> THEN <<>>
    ELSE IF Head(lines).kind = "+++ b/"
    THEN FirstMatchWins(Tail(lines), Head(lines).path)
    ELSE IF Head(lines).kind = "+" /\ current_file # None
    THEN FirstMatchSymbol(Head(lines), current_file) \o FirstMatchWins(Tail(lines), current_file)
    ELSE FirstMatchWins(Tail(lines), current_file)

\* C33: extract_changed_symbols gives, for every added line, at most one
\* symbol: the one of the first pattern, in the fixed order, that matches the
\* line, with the file of the latest "+++ b/<path>" header.
C33_FirstMatchWins ==
    computed.done
    => [k \in 1..Len(computed.result) |->
            [name |-> computed.result[k].name,
             type |-> computed.result[k].type,
             file_path |-> computed.result[k].file_path]]
       = FirstMatchWins(computed.lines, None)

TagsOfCase(testcase) == {testcase.children[c].tag : c \in 1..Len(testcase.children)}

\* C34: the status of every testcase follows the precedence failure, error,
\* skipped, passed over its child elements: failed with a failure child,
\* whatever else it has; error with an error child and no failure; skipped
\* with a skipped child and neither; passed only with none of the three.
C34_StatusPrecedence ==
    (computed.done /\ computed.xml.well_formed)
    => /\ computed.result.kind = "ok"
       /\ Len(computed.result.value) = Len(computed.xml.testcases)
       /\ \A k \in 1..Len(computed.xml.testcases) :
            LET tags == TagsOfCase(computed.xml.testcases[k])
                status == computed.result.value[k].status
            IN /\ "failure" \in tags => status = "failed"
               /\ ("error" \in tags /\ "failure" \notin tags) => status = "error"
               /\ ("skipped" \in tags /\ tags \cap {"failure", "error"} = {})
                    => status = "skipped"
               /\ status = "passed" <=> tags \cap {"failure", "error", "skipped"} = {}

\* a report was parsed that holds a testcase with a skipped child before a
\* failure child, and one with an error child and a skipped child
C34_Witness ==
    /\ computed.done
    /\ computed.xml.well_formed
    /\ \E k, l \in 1..Len(computed.xml.testcases) :
         /\ computed.xml.testcases[k].children = <<SkippedElem, FailureElem>>
         /\ computed.result.value[k].status = "failed"
         /\ computed.xml.testcases[l].children = <<SkippedElem, ErrorElem>>
         /\ computed.result.value[l].status = "error"

\* C35: when the fetch of the diff or of the file list fails for an opened
\* or synchronize event, the handler does not fail: it returns, and the
\* record of the pull request carries the new head and the manifest
\* generated from an empty diff and an empty file list, in place of the
\* manifest it had.
C35_FetchFailureDowngraded ==
    [][handled'.handler = "pr" =>
          \A event \in Synchronizations :
              PrTask(event, Raise)
              => LET row == GetPrByRepoAndNumber(event.repo, event.pr_number)'
                     issue_row == IF event.linked_issue = 0 THEN 0
                                  ELSE GetIssueByRepoAndNumber(event.repo, event.linked_issue)
                     checklist == IF issue_row = 0 THEN <<>> ELSE issues[issue_row].checklist
                 IN /\ handled'.outcome = "returned"
                    /\ row # 0
                    /\ pull_requests'[row].head_sha = event.head_sha
                    /\ pull_requests'[row].test_manifest
                         = GenerateTestManifest(event.pr_number, event.head_sha,
                                                <<>>, <<>>, checklist)
                    /\ \A t \in 1..Len(pull_requests'[row].test_manifest.tests) :
                         pull_requests'[row].test_manifest.tests[t].target = "unknown"]_vars

\* the fetch of a synchronization has just failed, and the manifest without
\* tests it left replaced one a stored test result was mapped through
C35_Witness ==
    /\ handled.handler = "pr"
    /\ handled.outcome = "returned"
    /\ handled.calls = <<"get_pr_diff">>
    /\ Len(pull_requests) = 1
    /\ pull_requests[1].head_sha = "sha2"
    /\ pull_requests[1].test_manifest.head_sha = "sha2"
    /\ pull_requests[1].test_manifest.tests = <<>>
    /\ \E k \in 1..Len(test_results) : test_results[k].test_id # None

\* C36: a comment that fails to post does not stop the handling of its
\* event. The issue handler still returns, with the issue stored as it is
\* when the comment succeeds; the workflow handler still returns, with the
\* test results and the report saved, and the merge gate is consulted
\* exactly when the verdict authorizes it.
C36_CommentFailureLogged ==
    [][/\ handled'.handler = "issue" =>
            \A event \in {e \in IssueEvents : ~MissingIssueFields(e)} :
                IssueTask(event, "none", Ok(<<>>), FALSE)
                => /\ handled'.outcome = "returned"
                   /\ handled'.comment.attempted /\ ~handled'.comment.posted
                   /\ HandleIssueEvent(event, "none", Ok(<<>>), TRUE)
                   /\ LET row == GetIssueByRepoAndNumber(event.repo, event.issue_number)'
                      IN row # 0 /\ issues'[row].checklist = HeuristicChecklist(event)
       /\ handled'.handler = "workflow_run" =>
            \A event \in WorkflowEvents, listing \in TaskListings \ {Raise} :
                (/\ CompletedRun(event)
                 /\ FindPrBySha(event.repo, event.head_sha) # 0
                 /\ WorkflowTaskCommenting(event, listing, FALSE))
                => /\ handled'.outcome = "returned"
                   /\ handled'.comment.attempted /\ ~handled'.comment.posted
                   /\ Len(reports') = Len(reports) + 1
                   /\ HandleWorkflowRun(event, listing)
                   /\ last_run'.outcome = "returned"
                   /\ last_run'.merge_attempted
                        = MergeAuthorized(auto_merge_enabled,
                                          reports'[Len(reports')].report_content)]_vars

\* the comment of a workflow run has just failed, its report is saved and the
\* merge gate was consulted; the issue of the pull request is stored
C36_Witness ==
    /\ handled.handler = "workflow_run"
    /\ handled.outcome = "returned"
    /\ handled.comment.attempted
    /\ ~handled.comment.posted
    /\ reports # <<>>
    /\ last_run.outcome = "returned"
    /\ last_run.merge_attempted
    /\ issues # <<>>

\* the comment of an issue has just failed, and the issue is stored
C36_WitnessIssue ==
    /\ handled.handler = "issue"
    /\ handled.outcome = "returned"
    /\ handled.comment.attempted
    /\ ~handled.comment.posted
    /\ issues # <<>>

NoInstallation(attempt) ==
    /\ attempt.result = MergeResult(FALSE, <<"Installation ID not available">>, None)
    /\ attempt.calls = {}
    /\ attempt.reply = NoReply

\* C37: with auto-merge enabled every attempt_merge, whether a client calls
\* it or handle_workflow_run does, answers success = False with the message
\* "Installation ID not available" and reaches neither the branch protection
\* lookup nor the merge endpoint; no attempt, in any state, ends in Merged.
C37_MergeNeverReachesProvider ==
    /\ auto_merge_enabled
        => /\ gate.invoked => NoInstallation(gate.attempt)
           /\ RunAttemptedMerge => NoInstallation(last_run.merge)
    /\ gate.invoked => GateState(gate.attempt.result) # "Merged"
    /\ RunAttemptedMerge => GateState(last_run.merge.result) # "Merged"

\* auto-merge is on; the gate was called by a client, and by a workflow run
\* whose verdict has every required item passed, with a provider ready to
\* merge: both attempts were blocked
C37_Witness ==
    /\ auto_merge_enabled
    /\ gate.invoked
    /\ GateState(gate.attempt.result) = "Blocked"
    /\ RunAttemptedMerge
    /\ last_run.compliance.required_total > 0
    /\ last_run.compliance.required_passed = last_run.compliance.required_total
    /\ last_run.provider_merge.kind = "ok" /\ last_run.provider_merge.merged
    /\ GateState(last_run.merge.result) = "Blocked"

\* the pull requests whose stored head is the head of the run
AtHeadOf(event) ==
    {r \in 1..Len(pull_requests) :
        pull_requests[r].repo = event.repo /\ pull_requests[r].head_sha = event.head_sha}

\* C38: a workflow run yields test results, a report, a comment and a merge
\* decision only for a pull request whose stored head_sha is the head_sha of
\* the run; a run of a head that no stored pull request has (the head a
\* synchronization has replaced) yields none of them.
C38_VerdictOnlyForStoredHead ==
    [][handled'.handler = "workflow_run" =>
          \A event \in WorkflowEvents, listing \in TaskListings \ {Raise},
             comment_ok \in BOOLEAN :
              WorkflowTaskCommenting(event, listing, comment_ok)
              => /\ Len(reports') > Len(reports)
                      => reports'[Len(reports')].pr_id \in AtHeadOf(event)
                 /\ \A k \in (Len(test_results) + 1)..Len(test_results') :
                      test_results'[k].pr_id \in AtHeadOf(event)
                 /\ AtHeadOf(event) = {}
                      => /\ reports' = reports
                         /\ test_results' = test_results
                         /\ ~handled'.comment.attempted
                         /\ last_run'.outcome = "raised"
                         /\ handled'.outcome = "raised"]_vars

\* the pull request is at sha2, with a manifest that replaced the one its
\* stored test results were mapped through; the run just handled was of a
\* head no pull request has, and left nothing
C38_Witness ==
    /\ handled.handler = "workflow_run"
    /\ handled.outcome = "raised"
    /\ handled.error = "PR not found for SHA"
    /\ Len(pull_requests) = 1
    /\ pull_requests[1].head_sha = "sha2"
    /\ pull_requests[1].test_manifest.tests = <<>>
    /\ Len(reports) = 1
    /\ \E k \in 1..Len(test_results) : test_results[k].test_id # None


\* ------------------------------------------------------------------------
\* C39: whatever the interleaving of the handlers of one subject, the issues
\* table holds at most one row per (repo, issue number) and the pull_requests
\* table at most one row per (repo, PR number): the lookup followed by a
\* create never adds a second row for a key.
C39_OneRecordPerKey ==
    /\ \A i, j \in 1..Len(issues) :
          (issues[i].repo = issues[j].repo
              /\ issues[i].issue_number = issues[j].issue_number) => i = j
    /\ \A i, j \in 1..Len(pull_requests) :
          (pull_requests[i].repo = pull_requests[j].repo
              /\ pull_requests[i].pr_number = pull_requests[j].pr_number) => i = j

\* the same, for the pull requests alone and for the issues alone
C39_OnePrPerKey ==
    \A i, j \in 1..Len(pull_requests) :
        (pull_requests[i].repo = pull_requests[j].repo
            /\ pull_requests[i].pr_number = pull_requests[j].pr_number) => i = j

C39_OneIssuePerKey ==
    \A i, j \in 1..Len(issues) :
        (issues[i].repo = issues[j].repo
            /\ issues[i].issue_number = issues[j].issue_number) => i = j

\* no lookup by key finds several rows
C39_NoLookupFindsSeveral ==
    \A s \in 1..MaxSessions : sessions[s].error # "MultipleResultsFound"

====
